---- MODULE Spec2Model ----
(***************************************************************************)
(* Persistent Memory Manager (hooks/useWalletMemory.ts) with the Blob      *)
(* Persistence Gateway (lib/walrus/service.ts) and the Intent Extractor    *)
(* (lib/ai/service.ts).                                                    *)
(*                                                                         *)
(* React closures: every callback is taken from the latest render, and a   *)
(* render is assumed to have completed between two steps.  A callback      *)
(* therefore sees `memory` and `currentAccount` as they are when the step  *)
(* begins; what a timer callback captured is stored with the timer.        *)
(***************************************************************************)
EXTENDS Integers, Sequences, FiniteSets, TLC

\* ---------------------------------------------------------------- bounds
\* Spec: two identities, every operation, a few seconds.
MaxMut == 2
MaxPut == 2
MaxConnect == 2
MaxClear == 1
MaxOps == 3
MaxElapsed == 4200
\* SpecSched: one identity, the scheduler over a whole backoff window.
MaxMutSched == 4
MaxPutSched == 4
MaxElapsedSched == 40200
\* Date.now() at construction, and the step by which idle time passes.
StartTime == 100000
Step == 2000
StepSched == 10000
\* The aggregate the returning identity "A" committed in an earlier session.
OldMessage == 9
OldTime == 50000
\* SpecLoad: one mutation and its commit between four identity changes.
MaxConnectLoad == 4
MaxElapsedLoad == 2200
\* SpecReset: from two failed automatic commits on, a third failure, a
\* successful commit and a timer that elapses after it.
MaxMutReset == 4
MaxPutReset == 5
MaxElapsedReset == 2200
\* SpecGateway: the step by which time passes while a fetch is pending.
GatewayStep == 5000
\* SpecExtract: generative calls one call of the extractor may issue.
MaxCalls == 4
MaxChatCalls == 3
\* SpecClear: one loaded identity; puts that may be started.
MaxPutClear == 2
MaxRef == 2

\* ------------------------------------------------------ program constants
AUTO_SAVE_DELAY == 2000
FAST_PATH_DELAY == 100
TOAST_THROTTLE_MS == 10000
MAX_CONSECUTIVE_FAILURES == 3
BACKOFF_DURATION_MS == 30000
UPLOAD_TIMEOUT == 10000
MIN_TEXT_LENGTH == 10
DOWNLOAD_TIMEOUT == 10000

Accounts == {"A", "B"}
NoAccount == "none"
Null == [null |-> TRUE]
NoTimer == [none |-> TRUE]
Kinds == {"chat", "activity", "summary", "contacts"}

VARIABLES
  currentAccount,       \* useCurrentAccount()?.address, NoAccount when disconnected
  memory,               \* useState<WalletMemory | null>
  isLoading,
  isSaving,
  pendingChanges,       \* pendingChangesRef.current
  saveTimeout,          \* the pending debounce timer with what its callback captured
  fastTimers,           \* pending 100 ms timers with what their callbacks captured
  consecutiveFailures,  \* consecutiveFailuresRef.current
  backoffUntil,         \* backoffUntilRef.current
  lastErrorToastTime,   \* lastErrorToastTimeRef.current
  lastErrorToastId,     \* lastErrorToastIdRef.current (0 = null)
  uploads,              \* puts in flight
  downloads,            \* gets in flight (one per running loadMemory)
  localStorage,         \* walrus_blob_<address> entries, 0 = absent
  walrus,               \* the blob store: blobId i holds walrus[i]
  now,                  \* Date.now()
  nMut,                 \* number of mutation calls made so far
  nPut,                 \* number of puts started so far
  lastPut,              \* what the put that resolved last returned (blobId 0 = null)
                        \* and the backoff deadline, nMut and nConn it found
  nConn,                \* number of identity changes so far
  nClear,               \* number of clearMemory calls so far
  errorToast,           \* the toast.error shown last by showThrottledErrorToast and
                        \* the id handed to toast.dismiss before it (0: none)
  gw,                   \* one call of the storage gateway client
  lastLoad,             \* what the loadMemory run that ended last found
  lim,                  \* the bounds of the behaviour, fixed by Init
  ex,                   \* the Intent Extractor: the module and the call in progress
  mounted,              \* the component that uses the hook is mounted
  api,                  \* one request to the /api/analyze route
  ch                    \* the chat component: contacts, messages, the intent handed
                        \* on, the transaction awaiting the wallet, activity-log calls

managerVars == <<currentAccount, memory, isLoading, isSaving, pendingChanges, saveTimeout,
                 fastTimers, consecutiveFailures, backoffUntil, lastErrorToastTime,
                 lastErrorToastId, uploads, downloads, localStorage, walrus, now, nMut, nPut,
                 lastPut, nConn, nClear, lastLoad, errorToast, lim, mounted>>

vars == <<managerVars, ex, gw, api, ch>>

\* The calls made so far from outside: identity changes, mutations, clears.
nOps == nMut + nConn + nClear

\* ---------------------------------------------------------------- helpers
createEmptyMemory(walletAddress) ==
  [walletAddress |-> walletAddress, chatHistory |-> <<>>, aiSummary |-> 0,
   activityLogs |-> <<>>, contacts |-> 0, lastUpdated |-> now, blobId |-> 0]

loadBlobIdLocally(walletAddress) == localStorage[walletAddress]

\* A write that is lost.
CacheNotWritten(walletAddress, blobId) == localStorage

saveBlobIdLocally(walletAddress, blobId) ==
  [localStorage EXCEPT ![walletAddress] = blobId]

Min(S) == CHOOSE x \in S : \A y \in S : x <= y

\* The blob store is content addressed: an identical payload is already
\* present and yields its pointer, a new payload is stored under a new one.
StoredAt(snap) == {i \in 1..Len(walrus) : walrus[i] = snap}
PointerOf(snap) == IF StoredAt(snap) # {} THEN Min(StoredAt(snap)) ELSE Len(walrus) + 1
StoreAfter(snap) == IF StoredAt(snap) # {} THEN walrus ELSE Append(walrus, snap)

\* The result of applying one mutation operation to a non-null aggregate.
Updated(prev, kind, id) ==
  CASE kind = "chat"     -> [prev EXCEPT !.chatHistory = Append(@, id), !.lastUpdated = now]
    [] kind = "activity" -> [prev EXCEPT !.activityLogs = Append(@, id), !.lastUpdated = now]
    [] kind = "summary"  -> [prev EXCEPT !.aiSummary = id, !.lastUpdated = now]
    [] kind = "contacts" -> [prev EXCEPT !.contacts = id, !.lastUpdated = now]

\* scheduleAutoSave: cancel the pending debounce timer and arm a new one whose
\* callback closes over the memory and account of the render it was created in.
ScheduledAutoSave ==
  [due |-> now + AUTO_SAVE_DELAY, mem |-> memory, acct |-> currentAccount]

\* The test of the backoff window is missing.
StartsPutInBackoff(mem, acct) ==
  /\ mem # Null
  /\ acct # NoAccount

\* saveToWalrusInternal up to its first await: TRUE when it goes on to call put.
StartsPut(mem, acct) ==
  /\ mem # Null
  /\ acct # NoAccount
  /\ ~(now < backoffUntil)

NewUpload(mem, acct, manual, debounced) ==
  [id |-> nPut + 1, acct |-> acct, snap |-> [mem EXCEPT !.lastUpdated = now],
   now |-> now, manual |-> manual, debounced |-> debounced, clears |-> nClear]

\* ------------------------------------------------------------------- Init
\* The pointer cache and the blob store outlive the page: identity "A" has
\* committed one aggregate in an earlier session, identity "B" is new.
EarlierSession ==
  [walletAddress |-> "A", chatHistory |-> <<OldMessage>>, aiSummary |-> 0,
   activityLogs |-> <<>>, contacts |-> 0, lastUpdated |-> OldTime, blobId |-> 0]

Constructed ==
  /\ currentAccount = NoAccount
  /\ memory = Null
  /\ isLoading = FALSE
  /\ isSaving = FALSE
  /\ pendingChanges = FALSE
  /\ saveTimeout = NoTimer
  /\ fastTimers = {}
  /\ consecutiveFailures = 0
  /\ backoffUntil = 0
  /\ lastErrorToastTime = 0
  /\ lastErrorToastId = 0
  /\ uploads = {}
  /\ downloads = {}
  /\ localStorage = [a \in Accounts |-> IF a = "A" THEN 1 ELSE 0]
  /\ walrus = <<EarlierSession>>
  /\ now = StartTime
  /\ nMut = 0
  /\ nPut = 0
  /\ lastPut = Null
  /\ nConn = 0
  /\ nClear = 0
  /\ lastLoad = Null
  /\ errorToast = Null

\* ------------------------------------------------- identity change / load
\* The check of the fetched aggregate's address is missing.
AdoptsWhateverIsFetched(walrusMemory, address, savedBlobId) ==
  IF walrusMemory # Null
    THEN [walrusMemory EXCEPT !.blobId = savedBlobId]
    ELSE createEmptyMemory(address)

\* What loadMemory sets as the aggregate of address: the aggregate fetched
\* under the cached pointer when there is one and it carries that address,
\* else a fresh one.  walrusMemory = Null: nothing was fetched.
LoadedMemory(walrusMemory, address, savedBlobId) ==
  IF walrusMemory # Null /\ walrusMemory.walletAddress = address
    THEN [walrusMemory EXCEPT !.blobId = savedBlobId]
    ELSE createEmptyMemory(address)

\* The loading flag is left as the run found it.
LoadingLeftSet == isLoading

\* The loading flag when a run of loadMemory ends: setIsLoading(false), in the
\* adopting branch and in the finally block.
LoadingAfterLoad == FALSE

\* The loadMemory effect up to its first await (or to its end on a cache miss).
Disconnect ==
  /\ currentAccount # NoAccount
  /\ nConn < lim.conn /\ nOps < lim.ops
  /\ nConn' = nConn + 1
  /\ currentAccount' = NoAccount
  /\ memory' = Null
  /\ consecutiveFailures' = 0
  /\ backoffUntil' = 0
  /\ UNCHANGED <<isLoading, isSaving, pendingChanges, saveTimeout, fastTimers,
                 lastErrorToastTime, lastErrorToastId, uploads, downloads,
                 localStorage, walrus, now, nMut, nPut,
                 nClear, lastPut, lastLoad, errorToast, lim, mounted, ex, gw, api, ch>>

Connect(a) ==
  /\ a # currentAccount
  /\ nConn < lim.conn /\ nOps < lim.ops
  /\ nConn' = nConn + 1
  /\ currentAccount' = a
  /\ consecutiveFailures' = 0
  /\ backoffUntil' = 0
  /\ lastErrorToastTime' = 0
  /\ lastErrorToastId' = 0
  /\ IF loadBlobIdLocally(a) # 0
       THEN /\ isLoading' = TRUE
            /\ downloads' = downloads \cup
                 {[id |-> nConn + 1, acct |-> a, blobId |-> loadBlobIdLocally(a)]}
            /\ UNCHANGED <<memory, lastLoad>>
       ELSE /\ memory' = LoadedMemory(Null, a, 0)
            /\ isLoading' = LoadingAfterLoad
            /\ lastLoad' = [id |-> nConn + 1, acct |-> a, cached |-> 0, fetched |-> Null]
            /\ UNCHANGED downloads
  /\ UNCHANGED <<isSaving, pendingChanges, saveTimeout, fastTimers, uploads,
                 localStorage, walrus, now, nMut, nPut,
                 nClear, lastPut, errorToast, lim, mounted, ex, gw, api, ch>>

\* downloadFromWalrus resolves: with the stored aggregate, or with null
\* (not found, non-success status, network error, timeout).
LoadComplete(d, found) ==
  /\ d \in downloads
  /\ found => d.blobId \in 1..Len(walrus)
  /\ downloads' = downloads \ {d}
  /\ memory' = LoadedMemory(IF found THEN walrus[d.blobId] ELSE Null, d.acct, d.blobId)
  /\ lastLoad' = [id |-> d.id, acct |-> d.acct, cached |-> d.blobId,
                  fetched |-> IF found THEN walrus[d.blobId] ELSE Null]
  /\ isLoading' = LoadingAfterLoad
  /\ UNCHANGED <<currentAccount, isSaving, pendingChanges, saveTimeout, fastTimers,
                 consecutiveFailures, backoffUntil, lastErrorToastTime,
                 lastErrorToastId, uploads, localStorage, walrus, now, nMut, nPut,
                 nConn, nClear, lastPut, errorToast, lim, mounted, ex, gw, api, ch>>

\* ---------------------------------------------------------------- mutations
\* addChatMessage / addActivityLog / updateContacts: the updater does nothing
\* on a null aggregate; with no blobId it arms a 100 ms timer that saves the
\* updated aggregate, otherwise it calls scheduleAutoSave.
MutateInUpdater(kind) ==
  /\ kind \in {"chat", "activity", "contacts"}
  /\ nMut < lim.mut /\ nOps < lim.ops
  /\ nMut' = nMut + 1
  /\ IF memory = Null
       THEN UNCHANGED <<memory, fastTimers, saveTimeout, pendingChanges>>
       ELSE /\ memory' = Updated(memory, kind, nMut + 1)
            /\ IF memory.blobId = 0 /\ currentAccount # NoAccount
                 THEN /\ fastTimers' = fastTimers \cup
                           {[id |-> nMut + 1, due |-> now + FAST_PATH_DELAY,
                             mem |-> Updated(memory, kind, nMut + 1),
                             acct |-> currentAccount]}
                      /\ UNCHANGED <<saveTimeout, pendingChanges>>
                 ELSE /\ saveTimeout' = ScheduledAutoSave
                      /\ pendingChanges' = TRUE
                      /\ UNCHANGED fastTimers
  /\ UNCHANGED <<currentAccount, isLoading, isSaving, consecutiveFailures, backoffUntil,
                 lastErrorToastTime, lastErrorToastId, uploads, downloads,
                 localStorage, walrus, now, nPut,
                 nConn, nClear, lastPut, lastLoad, errorToast, lim, mounted, ex, gw, api, ch>>

\* updateAiSummary: calls scheduleAutoSave outside the updater, always.
updateAiSummary ==
  /\ nMut < lim.mut /\ nOps < lim.ops
  /\ nMut' = nMut + 1
  /\ memory' = IF memory = Null THEN Null ELSE Updated(memory, "summary", nMut + 1)
  /\ saveTimeout' = ScheduledAutoSave
  /\ pendingChanges' = TRUE
  /\ UNCHANGED <<currentAccount, isLoading, isSaving, fastTimers, consecutiveFailures,
                 backoffUntil, lastErrorToastTime, lastErrorToastId, uploads,
                 downloads, localStorage, walrus, now, nPut,
                 nConn, nClear, lastPut, lastLoad, errorToast, lim, mounted, ex, gw, api, ch>>

clearMemory ==
  /\ currentAccount # NoAccount
  /\ nClear < lim.clear /\ nOps < lim.ops
  /\ nClear' = nClear + 1
  /\ memory' = createEmptyMemory(currentAccount)
  /\ saveTimeout' = ScheduledAutoSave
  /\ pendingChanges' = TRUE
  /\ UNCHANGED <<currentAccount, isLoading, isSaving, fastTimers, consecutiveFailures,
                 backoffUntil, lastErrorToastTime, lastErrorToastId, uploads,
                 downloads, localStorage, walrus, now, nMut, nPut,
                 nConn, lastPut, lastLoad, errorToast, lim, mounted, ex, gw, api, ch>>

\* ---------------------------------------------------------------- teardown
\* The component unmounts: the cleanup of the mount effect runs, which clears
\* the timer in saveTimeoutRef.  Timers set with a bare setTimeout and
\* requests in flight are left as they are.
Unmount ==
  /\ mounted
  /\ mounted' = FALSE
  /\ saveTimeout' = NoTimer
  /\ UNCHANGED <<currentAccount, memory, isLoading, isSaving, pendingChanges, fastTimers,
                 consecutiveFailures, backoffUntil, lastErrorToastTime, lastErrorToastId,
                 uploads, downloads, localStorage, walrus, now, nMut, nPut, nConn, nClear,
                 lastPut, lastLoad, errorToast, lim, ex, gw, api, ch>>

\* ------------------------------------------------------------------ timers
\* The debounce callback: saves the captured memory when changes are pending;
\* a save that returns before its first await also clears pendingChanges.
DebounceElapse ==
  /\ saveTimeout # NoTimer
  /\ saveTimeout.due <= now
  /\ saveTimeout' = NoTimer
  /\ IF pendingChanges /\ saveTimeout.mem # Null /\ saveTimeout.acct # NoAccount
       THEN IF StartsPut(saveTimeout.mem, saveTimeout.acct)
              THEN /\ nPut < lim.put
                   /\ uploads' = uploads \cup
                        {NewUpload(saveTimeout.mem, saveTimeout.acct, FALSE, TRUE)}
                   /\ nPut' = nPut + 1
                   /\ isSaving' = TRUE
                   /\ UNCHANGED pendingChanges
              ELSE /\ isSaving' = FALSE
                   /\ pendingChanges' = FALSE
                   /\ UNCHANGED <<uploads, nPut>>
       ELSE UNCHANGED <<uploads, nPut, isSaving, pendingChanges>>
  /\ UNCHANGED <<currentAccount, memory, isLoading, fastTimers, consecutiveFailures,
                 backoffUntil, lastErrorToastTime, lastErrorToastId, downloads,
                 localStorage, walrus, now, nMut,
                 nConn, nClear, lastPut, lastLoad, errorToast, lim, mounted, ex, gw, api, ch>>

\* A fast-path callback: saveToWalrusInternal(updated).
FastPathElapse(t) ==
  /\ t \in fastTimers
  /\ t.due <= now
  /\ fastTimers' = fastTimers \ {t}
  /\ IF StartsPut(t.mem, t.acct)
       THEN /\ nPut < lim.put
            /\ uploads' = uploads \cup {NewUpload(t.mem, t.acct, FALSE, FALSE)}
            /\ nPut' = nPut + 1
            /\ isSaving' = TRUE
       ELSE /\ isSaving' = FALSE
            /\ UNCHANGED <<uploads, nPut>>
  /\ UNCHANGED <<currentAccount, memory, isLoading, pendingChanges, saveTimeout,
                 consecutiveFailures, backoffUntil, lastErrorToastTime,
                 lastErrorToastId, downloads, localStorage, walrus, now, nMut,
                 nConn, nClear, lastPut, lastLoad, errorToast, lim, mounted, ex, gw, api, ch>>

\* ------------------------------------------------------------ manual save
saveToWalrus ==
  /\ memory # Null
  /\ currentAccount # NoAccount
  /\ nPut < lim.put
  /\ uploads' = uploads \cup {NewUpload(memory, currentAccount, TRUE, FALSE)}
  /\ nPut' = nPut + 1
  /\ isSaving' = TRUE
  /\ UNCHANGED <<currentAccount, memory, isLoading, pendingChanges, saveTimeout,
                 fastTimers, consecutiveFailures, backoffUntil, lastErrorToastTime,
                 lastErrorToastId, downloads, localStorage, walrus, now, nMut,
                 nConn, nClear, lastPut, lastLoad, errorToast, lim, mounted, ex, gw, api, ch>>

\* ------------------------------------------------------- commit completion
\* showThrottledErrorToast past its isManualSave test: neither in backoff nor
\* throttled.
ToastShown == ~(now < backoffUntil) /\ ~(now - lastErrorToastTime < TOAST_THROTTLE_MS)

\* The test of isManualSave is missing.
ToastForEveryFailure(isManualSave, toastId) ==
  IF ToastShown
    THEN [lastErrorToastId |-> toastId, lastErrorToastTime |-> now, shown |-> TRUE]
    ELSE [lastErrorToastId |-> lastErrorToastId,
          lastErrorToastTime |-> lastErrorToastTime, shown |-> FALSE]

\* showThrottledErrorToast: the two refs after the call, and whether
\* toast.error was called; toastId is the id toast.error returns.
showThrottledErrorToast(isManualSave, toastId) ==
  IF isManualSave /\ ToastShown
    THEN [lastErrorToastId |-> toastId, lastErrorToastTime |-> now, shown |-> TRUE]
    ELSE [lastErrorToastId |-> lastErrorToastId,
          lastErrorToastTime |-> lastErrorToastTime, shown |-> FALSE]

\* The failure tracking is left as it was.
KeptOnSuccess ==
  [consecutiveFailures |-> consecutiveFailures, backoffUntil |-> backoffUntil]

\* The failure tracking after a put that returned a pointer.
ResetOnSuccess == [consecutiveFailures |-> 0, backoffUntil |-> 0]

UploadSucceeds(p) ==
  /\ p \in uploads
  /\ uploads' = uploads \ {p}
  /\ walrus' = StoreAfter(p.snap)
  /\ consecutiveFailures' = ResetOnSuccess.consecutiveFailures
  /\ backoffUntil' = ResetOnSuccess.backoffUntil
  /\ localStorage' = saveBlobIdLocally(p.acct, PointerOf(p.snap))
  /\ memory' = IF memory # Null
                 THEN [memory EXCEPT !.blobId = PointerOf(p.snap),
                                     !.lastUpdated = p.snap.lastUpdated]
                 ELSE Null
  /\ isSaving' = FALSE
  /\ pendingChanges' = IF p.debounced THEN FALSE ELSE pendingChanges
  /\ lastPut' = [id |-> p.id, acct |-> p.acct, manual |-> p.manual, at |-> now,
                 blobId |-> PointerOf(p.snap), lastUpdated |-> p.snap.lastUpdated,
                 backoff |-> backoffUntil, mut |-> nMut, conn |-> nConn]
  /\ UNCHANGED <<currentAccount, isLoading, saveTimeout, fastTimers, lastErrorToastTime,
                 lastErrorToastId, downloads, now, nMut, nPut,
                 nConn, nClear, lastLoad, errorToast, lim, mounted, ex, gw, api, ch>>

\* A window is opened only when the counter reaches the threshold.
BackoffOnThresholdOnly(failures, started) ==
  IF failures = MAX_CONSECUTIVE_FAILURES THEN started + BACKOFF_DURATION_MS
  ELSE backoffUntil

\* The backoff deadline after a failed automatic commit that was started at
\* `started` and has brought the counter to `failures`.
BackoffAfterFailure(failures, started) ==
  IF failures >= MAX_CONSECUTIVE_FAILURES THEN started + BACKOFF_DURATION_MS
  ELSE backoffUntil

UploadFails(p) ==
  /\ p \in uploads
  /\ uploads' = uploads \ {p}
  /\ IF p.manual
       THEN UNCHANGED <<consecutiveFailures, backoffUntil>>
       ELSE /\ consecutiveFailures' = consecutiveFailures + 1
            /\ backoffUntil' = BackoffAfterFailure(consecutiveFailures + 1, p.now)
  /\ LET t == showThrottledErrorToast(p.manual, p.id)
     IN /\ lastErrorToastId' = t.lastErrorToastId
        /\ lastErrorToastTime' = t.lastErrorToastTime
        /\ errorToast' = IF t.shown
                           THEN [id |-> p.id, at |-> now, acct |-> p.acct,
                                 dismissed |-> lastErrorToastId]
                           ELSE errorToast
  /\ isSaving' = FALSE
  /\ pendingChanges' = IF p.debounced THEN FALSE ELSE pendingChanges
  /\ lastPut' = [id |-> p.id, acct |-> p.acct, manual |-> p.manual, at |-> now,
                 blobId |-> 0, lastUpdated |-> p.snap.lastUpdated,
                 backoff |-> backoffUntil, mut |-> nMut, conn |-> nConn]
  /\ UNCHANGED <<currentAccount, memory, isLoading, saveTimeout, fastTimers,
                 downloads, localStorage, walrus, now, nMut, nPut,
                 nConn, nClear, lastLoad, lim, mounted, ex, gw, api, ch>>

\* -------------------------------------------------------------------- time
\* Timers fire when due and a fetch is aborted at its timeout: time advances
\* by a step, but not past the next of these instants.
Deadlines ==
  {t.due : t \in fastTimers}
    \cup (IF saveTimeout # NoTimer THEN {saveTimeout.due} ELSE {})
    \cup {p.now + UPLOAD_TIMEOUT : p \in uploads}

Advance ==
  /\ \A t \in Deadlines : now < t
  /\ now' = Min({now + lim.step} \cup Deadlines)
  /\ now' <= StartTime + lim.elapsed
  /\ UNCHANGED <<currentAccount, memory, isLoading, isSaving, pendingChanges, saveTimeout,
                 fastTimers, consecutiveFailures, backoffUntil, lastErrorToastTime,
                 lastErrorToastId, uploads, downloads, localStorage, walrus, nMut, nPut,
                 nConn, nClear, lastPut, lastLoad, errorToast, lim, mounted, ex, gw, api, ch>>

\* ====================================================== Intent Extractor
\* Text is a sequence of characters (one-character strings; the backtick and
\* the characters outside ASCII are written by name, e.g. "u-umlaut").
Max(S) == CHOOSE x \in S : \A y \in S : y <= x
Whitespace == {" ", "\n", "\t"}

\* String.prototype.trim: from the first to the last character that is not
\* white space.
Trim(s) ==
  LET inked == {i \in 1..Len(s) : s[i] \notin Whitespace}
  IN IF inked = {} THEN <<>> ELSE SubSeq(s, Min(inked), Max(inked))

\* The letters of "json" under the regular expression flag i.
LowerCase(c) ==
  CASE c = "J" -> "j" [] c = "S" -> "s" [] c = "O" -> "o" [] c = "N" -> "n" [] OTHER -> c

\* pat occurs in s at position i.
OccursAt(s, pat, ignoreCase, i) ==
  /\ i + Len(pat) - 1 <= Len(s)
  /\ \A j \in 1..Len(pat) :
        (IF ignoreCase THEN LowerCase(s[i + j - 1]) ELSE s[i + j - 1]) = pat[j]

EndsWith(s, c) == s # <<>> /\ s[Len(s)] = c

\* The matches a global regular expression finds: scanning from the left, an
\* occurrence counts unless it overlaps a match found before it.
Matches(s, pat, ignoreCase) ==
  LET occurrences == {i \in 1..Len(s) : OccursAt(s, pat, ignoreCase, i)}
  IN CHOOSE T \in SUBSET occurrences :
       \A i \in occurrences :
         i \in T <=> ~\E j \in T : j < i /\ i < j + Len(pat)

\* String.prototype.replace(/pat/g, ''): s without its matches.
Remove(s, pat, ignoreCase) ==
  LET T == Matches(s, pat, ignoreCase)
      indexed == [i \in 1..Len(s) |-> [i |-> i, c |-> s[i]]]
      Kept(e) == ~\E j \in T : j <= e.i /\ e.i < j + Len(pat)
      rest == SelectSeq(indexed, Kept)
  IN [n \in 1..Len(rest) |-> rest[n].c]

\* indexOf / lastIndexOf, counted from 1; 0 when the character does not occur.
IndexOf(s, c) ==
  IF \E i \in 1..Len(s) : s[i] = c THEN Min({i \in 1..Len(s) : s[i] = c}) ELSE 0
LastIndexOf(s, c) ==
  IF \E i \in 1..Len(s) : s[i] = c THEN Max({i \in 1..Len(s) : s[i] = c}) ELSE 0

\* (s.match(/c/g) || []).length
Count(s, c) == Cardinality({i \in 1..Len(s) : s[i] = c})

Fence == <<"backtick", "backtick", "backtick">>
FenceJson == <<"backtick", "backtick", "backtick", "j", "s", "o", "n">>

cleanJsonOutput(text) ==
  IF text = <<>> THEN <<>>
  ELSE LET cleaned == Trim(Trim(Remove(Remove(text, FenceJson, TRUE), Fence, FALSE)))
           firstBrace == IndexOf(cleaned, "{")
           lastBrace == LastIndexOf(cleaned, "}")
       IN IF firstBrace # 0 /\ lastBrace # 0 /\ lastBrace > firstBrace
            THEN SubSeq(cleaned, firstBrace, lastBrace)
            ELSE cleaned

tryFixIncompleteJSON(jsonStr) ==
  LET trimmed == Trim(jsonStr)
      openBraces == Count(trimmed, "{")
      closeBraces == Count(trimmed, "}")
      missing == openBraces - closeBraces
      cut == IF EndsWith(trimmed, "\"") \/ EndsWith(trimmed, ",")
               THEN SubSeq(trimmed, 1, Len(trimmed) - 1)
               ELSE trimmed
      closed == IF openBraces > closeBraces
                  THEN cut \o <<"\n">> \o [i \in 1..missing |-> "}"]
                  ELSE trimmed
      openQuotes == Count(closed, "\"")
  IN IF openQuotes % 2 # 0 /\ ~EndsWith(closed, "\"") THEN Append(closed, "\"") ELSE closed

\* JSON values, tagged with what typeof / Array.isArray / === null tell apart.
JStr(s) == [k |-> "string", v |-> s]
JNum(n) == [k |-> "number", v |-> n]
JBool(b) == [k |-> "boolean", v |-> b]
JArr(q) == [k |-> "array", v |-> q]
JObj(f) == [k |-> "object", v |-> f]
JNull == [k |-> "null"]
JUndefined == [k |-> "undefined"]

\* o[key] where o is neither null nor undefined.
Get(o, key) == IF o.k = "object" /\ key \in DOMAIN o.v THEN o.v[key] ELSE JUndefined
\* o?.[key]
GetOptional(o, key) == IF o.k \in {"null", "undefined"} THEN JUndefined ELSE Get(o, key)
SetKey(o, key, val) == JObj((key :> val) @@ o.v)
DeleteKey(o, key) == JObj([x \in DOMAIN o.v \ {key} |-> o.v[x]])
Truthy(x) ==
  CASE x.k \in {"null", "undefined"} -> FALSE
    [] x.k = "string" -> x.v # ""
    [] x.k = "number" -> x.v # 0
    [] x.k = "boolean" -> x.v
    [] OTHER -> TRUE

\* User messages, one per outcome of the language tests.
Utterances ==
  {<<"s", "e", "n", "d">>,
   <<"S", "U", "I">>,
   <<"g", "u-umlaut", "n">>,
   <<"a", "n-tilde", "o">>,
   <<"c", "a", "f", "e-acute">>,
   <<"o", "u-grave">>,
   <<"c-cedilla", "a">>,
   <<"b", "a-umlaut", "r">>,
   <<"m", "a", "eszett">>}

\* Texts the generative backend may return (response.text()).
RawPlain ==
  <<"{", "\"", "t", "y", "p", "e", "\"", ":", "\"", "C", "H", "A", "T", "\"", ",", "\"", "d",
    "a", "t", "a", "\"", ":", "{", "\"", "s", "u", "m", "m", "a", "r", "y", "\"", ":", "\"", "o",
    "k", "\"", ",", "\"", "a", "c", "t", "i", "o", "n", "_", "t", "y", "p", "e", "\"", ":", "\"",
    "N", "O", "N", "E", "\"", ",", "\"", "p", "a", "r", "a", "m", "s", "\"", ":", "{", "}", "}",
    "}">>

RawLegacy ==
  <<"{", "\"", "t", "y", "p", "e", "\"", ":", "\"", "T", "R", "A", "N", "S", "A", "C", "T", "I",
    "O", "N", "\"", ",", "\"", "d", "a", "t", "a", "\"", ":", "{", "\"", "s", "u", "m", "m", "a",
    "r", "y", "\"", ":", "\"", "g", "o", "\"", ",", "\"", "a", "c", "t", "i", "o", "n", "_", "t",
    "y", "p", "e", "\"", ":", "\"", "T", "R", "A", "N", "S", "F", "E", "R", "\"", ",", "\"", "p",
    "a", "r", "a", "m", "s", "\"", ":", "{", "\"", "a", "m", "o", "u", "n", "t", "\"", ":", "\"",
    "1", "0", "\"", ",", "\"", "t", "o", "_", "a", "d", "d", "r", "e", "s", "s", "\"", ":", "\"",
    "0", "x", "1", "\"", "}", "}", "}">>

RawFenced ==
  <<"backtick", "backtick", "backtick", "j", "s", "o", "n", "\n", "{", "\"", "t", "y", "p", "e", "\"", ":", "\"", "C",
    "H", "A", "T", "\"", ",", "\"", "d", "a", "t", "a", "\"", ":", "{", "\"", "s", "u", "m", "m",
    "a", "r", "y", "\"", ":", "\"", "o", "k", "\"", ",", "\"", "a", "c", "t", "i", "o", "n", "_",
    "t", "y", "p", "e", "\"", ":", "\"", "N", "O", "N", "E", "\"", ",", "\"", "p", "a", "r", "a",
    "m", "s", "\"", ":", "{", "}", "}", "}", "\n", "backtick", "backtick", "backtick">>

RawWrapped ==
  <<"backtick", "backtick", "backtick", "J", "S", "O", "N", " ", "H", "e", "r", "e", ":", " ", "{", "\"", "t", "y",
    "p", "e", "\"", ":", "\"", "C", "H", "A", "T", "\"", ",", "\"", "d", "a", "t", "a", "\"",
    ":", "{", "\"", "s", "u", "m", "m", "a", "r", "y", "\"", ":", "\"", "o", "k", "\"", ",",
    "\"", "a", "c", "t", "i", "o", "n", "_", "t", "y", "p", "e", "\"", ":", "\"", "N", "O", "N",
    "E", "\"", ",", "\"", "p", "a", "r", "a", "m", "s", "\"", ":", "{", "}", "}", "}", " ", "d",
    "o", "n", "e">>

RawCutBraces ==
  <<"{", "\"", "t", "y", "p", "e", "\"", ":", "\"", "C", "H", "A", "T", "\"", ",", "\"", "d",
    "a", "t", "a", "\"", ":", "{", "\"", "s", "u", "m", "m", "a", "r", "y", "\"", ":", "\"", "o",
    "k", "\"", ",", "\"", "a", "c", "t", "i", "o", "n", "_", "t", "y", "p", "e", "\"", ":", "\"",
    "N", "O", "N", "E", "\"", ",", "\"", "p", "a", "r", "a", "m", "s", "\"", ":", "{", "}">>

RawCutString ==
  <<"{", "\"", "t", "y", "p", "e", "\"", ":", "\"", "C", "H", "A", "T", "\"", ",", "\"", "d",
    "a", "t", "a", "\"", ":", "{", "\"", "s", "u", "m", "m", "a", "r", "y", "\"", ":", "\"", "o",
    "k">>

RawCutComma ==
  <<"{", "\"", "t", "y", "p", "e", "\"", ":", "\"", "C", "H", "A", "T", "\"", ",", "\"", "d",
    "a", "t", "a", "\"", ":", "{", "\"", "s", "u", "m", "m", "a", "r", "y", "\"", ":", "\"", "o",
    "k", "\"", ",", "\"", "a", "c", "t", "i", "o", "n", "_", "t", "y", "p", "e", "\"", ":", "\"",
    "N", "O", "N", "E", "\"", ",">>

RawEmpty ==
  <<>>

RawShort ==
  <<"{", "}">>

RawBlank ==
  <<" ", " ", " ", " ", " ", " ", " ", " ", " ", " ">>

RawNullParams ==
  <<"{", "\"", "t", "y", "p", "e", "\"", ":", "\"", "C", "H", "A", "T", "\"", ",", "\"", "d",
    "a", "t", "a", "\"", ":", "{", "\"", "s", "u", "m", "m", "a", "r", "y", "\"", ":", "\"", "o",
    "k", "\"", ",", "\"", "a", "c", "t", "i", "o", "n", "_", "t", "y", "p", "e", "\"", ":", "\"",
    "N", "O", "N", "E", "\"", ",", "\"", "p", "a", "r", "a", "m", "s", "\"", ":", "n", "u", "l",
    "l", "}", "}">>

RawBadEnum ==
  <<"{", "\"", "t", "y", "p", "e", "\"", ":", "\"", "C", "H", "A", "T", "\"", ",", "\"", "d",
    "a", "t", "a", "\"", ":", "{", "\"", "s", "u", "m", "m", "a", "r", "y", "\"", ":", "\"", "o",
    "k", "\"", ",", "\"", "a", "c", "t", "i", "o", "n", "_", "t", "y", "p", "e", "\"", ":", "\"",
    "M", "I", "N", "T", "\"", ",", "\"", "p", "a", "r", "a", "m", "s", "\"", ":", "{", "}", "}",
    "}">>

RawProse ==
  <<"I", " ", "c", "a", "n", "n", "o", "t", " ", "h", "e", "l", "p", ".">>

RawArray ==
  <<"[", "1", ",", "2", ",", "3", ",", "4", ",", "5", "]">>

RawDataString ==
  <<"{", "\"", "t", "y", "p", "e", "\"", ":", "\"", "C", "H", "A", "T", "\"", ",", "\"", "d",
    "a", "t", "a", "\"", ":", "\"", "n", "o", "n", "e", "\"", "}">>

RawLegacyBoth ==
  <<"{", "\"", "t", "y", "p", "e", "\"", ":", "\"", "T", "R", "A", "N", "S", "A", "C", "T", "I",
    "O", "N", "\"", ",", "\"", "d", "a", "t", "a", "\"", ":", "{", "\"", "s", "u", "m", "m", "a",
    "r", "y", "\"", ":", "\"", "g", "o", "\"", ",", "\"", "a", "c", "t", "i", "o", "n", "_", "t",
    "y", "p", "e", "\"", ":", "\"", "T", "R", "A", "N", "S", "F", "E", "R", "\"", ",", "\"", "p",
    "a", "r", "a", "m", "s", "\"", ":", "{", "\"", "r", "e", "c", "i", "p", "i", "e", "n", "t",
    "\"", ":", "\"", "a", "l", "i", "\"", ",", "\"", "t", "o", "_", "a", "d", "d", "r", "e", "s",
    "s", "\"", ":", "\"", "0", "x", "1", "\"", "}", "}", "}">>

RawLegacyEmpty ==
  <<"{", "\"", "t", "y", "p", "e", "\"", ":", "\"", "T", "R", "A", "N", "S", "A", "C", "T", "I",
    "O", "N", "\"", ",", "\"", "d", "a", "t", "a", "\"", ":", "{", "\"", "s", "u", "m", "m", "a",
    "r", "y", "\"", ":", "\"", "g", "o", "\"", ",", "\"", "a", "c", "t", "i", "o", "n", "_", "t",
    "y", "p", "e", "\"", ":", "\"", "T", "R", "A", "N", "S", "F", "E", "R", "\"", ",", "\"", "p",
    "a", "r", "a", "m", "s", "\"", ":", "{", "\"", "a", "m", "o", "u", "n", "t", "\"", ":", "\"",
    "1", "0", "\"", ",", "\"", "t", "o", "_", "a", "d", "d", "r", "e", "s", "s", "\"", ":", "\"",
    "\"", "}", "}", "}">>

RawCutQuote ==
  <<"{", "\"", "t", "y", "p", "e", "\"", ":", "\"", "C", "H", "A", "T", "\"", ",", "\"", "d",
    "a", "t", "a", "\"", ":", "{", "\"", "s", "u", "m", "m", "a", "r", "y", "\"", ":", "\"", "o",
    "k", "\"">>

RawOddQuote ==
  <<"s", "a", "y", " ", "\"", "o", "k", "\"", " ", "o", "r", " ", "\"">>

RawFencedShort ==
  <<"backtick", "backtick", "backtick", "j", "s", "o", "n", "{", "}",
    "backtick", "backtick", "backtick">>

RawOutputs ==
  {RawPlain, RawLegacy, RawFenced, RawWrapped, RawCutBraces, RawCutString, RawCutComma,
   RawEmpty, RawShort, RawBlank, RawNullParams, RawBadEnum, RawProse, RawArray,
   RawDataString, RawLegacyBoth, RawLegacyEmpty, RawCutQuote, RawOddQuote,
   RawFencedShort}

\* JSON.parse on the texts above: the texts that are well-formed JSON, with
\* the value each denotes; on every other text JSON.parse throws.
JsonTexts == {
  [text |->
      <<"{", "\"", "t", "y", "p", "e", "\"", ":", "\"", "C", "H", "A", "T", "\"", ",", "\"", "d",
        "a", "t", "a", "\"", ":", "{", "\"", "s", "u", "m", "m", "a", "r", "y", "\"", ":", "\"",
        "o", "k", "\"", ",", "\"", "a", "c", "t", "i", "o", "n", "_", "t", "y", "p", "e", "\"",
        ":", "\"", "N", "O", "N", "E", "\"", ",", "\"", "p", "a", "r", "a", "m", "s", "\"", ":",
        "{", "}", "}", "}">>,
   value |-> JObj([type |-> JStr("CHAT"), data |-> JObj([summary |-> JStr("ok"), action_type |-> JStr("NONE"), params |-> JObj(<<>>)])])],
  [text |->
      <<"{", "\"", "t", "y", "p", "e", "\"", ":", "\"", "T", "R", "A", "N", "S", "A", "C", "T",
        "I", "O", "N", "\"", ",", "\"", "d", "a", "t", "a", "\"", ":", "{", "\"", "s", "u", "m",
        "m", "a", "r", "y", "\"", ":", "\"", "g", "o", "\"", ",", "\"", "a", "c", "t", "i", "o",
        "n", "_", "t", "y", "p", "e", "\"", ":", "\"", "T", "R", "A", "N", "S", "F", "E", "R",
        "\"", ",", "\"", "p", "a", "r", "a", "m", "s", "\"", ":", "{", "\"", "a", "m", "o", "u",
        "n", "t", "\"", ":", "\"", "1", "0", "\"", ",", "\"", "t", "o", "_", "a", "d", "d", "r",
        "e", "s", "s", "\"", ":", "\"", "0", "x", "1", "\"", "}", "}", "}">>,
   value |-> JObj([type |-> JStr("TRANSACTION"), data |-> JObj([summary |-> JStr("go"), action_type |-> JStr("TRANSFER"), params |-> JObj([amount |-> JStr("10"), to_address |-> JStr("0x1")])])])],
  [text |->
      <<"{", "\"", "t", "y", "p", "e", "\"", ":", "\"", "C", "H", "A", "T", "\"", ",", "\"", "d",
        "a", "t", "a", "\"", ":", "{", "\"", "s", "u", "m", "m", "a", "r", "y", "\"", ":", "\"",
        "o", "k", "\"", ",", "\"", "a", "c", "t", "i", "o", "n", "_", "t", "y", "p", "e", "\"",
        ":", "\"", "N", "O", "N", "E", "\"", ",", "\"", "p", "a", "r", "a", "m", "s", "\"", ":",
        "{", "}", "\n", "}", "}">>,
   value |-> JObj([type |-> JStr("CHAT"), data |-> JObj([summary |-> JStr("ok"), action_type |-> JStr("NONE"), params |-> JObj(<<>>)])])],
  [text |->
      <<"{", "\"", "t", "y", "p", "e", "\"", ":", "\"", "C", "H", "A", "T", "\"", ",", "\"", "d",
        "a", "t", "a", "\"", ":", "{", "\"", "s", "u", "m", "m", "a", "r", "y", "\"", ":", "\"",
        "o", "k", "\"", ",", "\"", "a", "c", "t", "i", "o", "n", "_", "t", "y", "p", "e", "\"",
        ":", "\"", "N", "O", "N", "E", "\"", "\n", "}", "}">>,
   value |-> JObj([type |-> JStr("CHAT"), data |-> JObj([summary |-> JStr("ok"), action_type |-> JStr("NONE")])])],
  [text |->
      <<"{", "\"", "t", "y", "p", "e", "\"", ":", "\"", "C", "H", "A", "T", "\"", ",", "\"", "d",
        "a", "t", "a", "\"", ":", "{", "\"", "s", "u", "m", "m", "a", "r", "y", "\"", ":", "\"",
        "o", "k", "\"", ",", "\"", "a", "c", "t", "i", "o", "n", "_", "t", "y", "p", "e", "\"",
        ":", "\"", "N", "O", "N", "E", "\"", ",", "\"", "p", "a", "r", "a", "m", "s", "\"", ":",
        "n", "u", "l", "l", "}", "}">>,
   value |-> JObj([type |-> JStr("CHAT"), data |-> JObj([summary |-> JStr("ok"), action_type |-> JStr("NONE"), params |-> JNull])])],
  [text |->
      <<"{", "\"", "t", "y", "p", "e", "\"", ":", "\"", "C", "H", "A", "T", "\"", ",", "\"", "d",
        "a", "t", "a", "\"", ":", "{", "\"", "s", "u", "m", "m", "a", "r", "y", "\"", ":", "\"",
        "o", "k", "\"", ",", "\"", "a", "c", "t", "i", "o", "n", "_", "t", "y", "p", "e", "\"",
        ":", "\"", "M", "I", "N", "T", "\"", ",", "\"", "p", "a", "r", "a", "m", "s", "\"", ":",
        "{", "}", "}", "}">>,
   value |-> JObj([type |-> JStr("CHAT"), data |-> JObj([summary |-> JStr("ok"), action_type |-> JStr("MINT"), params |-> JObj(<<>>)])])],
  [text |->
      <<"[", "1", ",", "2", ",", "3", ",", "4", ",", "5", "]">>,
   value |-> JArr(<<JNum(1), JNum(2), JNum(3), JNum(4), JNum(5)>>)],
  [text |->
      <<"{", "\"", "t", "y", "p", "e", "\"", ":", "\"", "C", "H", "A", "T", "\"", ",", "\"", "d",
        "a", "t", "a", "\"", ":", "\"", "n", "o", "n", "e", "\"", "}">>,
   value |-> JObj([type |-> JStr("CHAT"), data |-> JStr("none")])],
  [text |->
      <<"{", "\"", "t", "y", "p", "e", "\"", ":", "\"", "T", "R", "A", "N", "S", "A", "C", "T",
        "I", "O", "N", "\"", ",", "\"", "d", "a", "t", "a", "\"", ":", "{", "\"", "s", "u", "m",
        "m", "a", "r", "y", "\"", ":", "\"", "g", "o", "\"", ",", "\"", "a", "c", "t", "i", "o",
        "n", "_", "t", "y", "p", "e", "\"", ":", "\"", "T", "R", "A", "N", "S", "F", "E", "R",
        "\"", ",", "\"", "p", "a", "r", "a", "m", "s", "\"", ":", "{", "\"", "r", "e", "c", "i",
        "p", "i", "e", "n", "t", "\"", ":", "\"", "a", "l", "i", "\"", ",", "\"", "t", "o", "_",
        "a", "d", "d", "r", "e", "s", "s", "\"", ":", "\"", "0", "x", "1", "\"", "}", "}", "}">>,
   value |-> JObj([type |-> JStr("TRANSACTION"), data |-> JObj([summary |-> JStr("go"), action_type |-> JStr("TRANSFER"), params |-> JObj([recipient |-> JStr("ali"), to_address |-> JStr("0x1")])])])],
  [text |->
      <<"{", "\"", "t", "y", "p", "e", "\"", ":", "\"", "T", "R", "A", "N", "S", "A", "C", "T",
        "I", "O", "N", "\"", ",", "\"", "d", "a", "t", "a", "\"", ":", "{", "\"", "s", "u", "m",
        "m", "a", "r", "y", "\"", ":", "\"", "g", "o", "\"", ",", "\"", "a", "c", "t", "i", "o",
        "n", "_", "t", "y", "p", "e", "\"", ":", "\"", "T", "R", "A", "N", "S", "F", "E", "R",
        "\"", ",", "\"", "p", "a", "r", "a", "m", "s", "\"", ":", "{", "\"", "a", "m", "o", "u",
        "n", "t", "\"", ":", "\"", "1", "0", "\"", ",", "\"", "t", "o", "_", "a", "d", "d", "r",
        "e", "s", "s", "\"", ":", "\"", "\"", "}", "}", "}">>,
   value |-> JObj([type |-> JStr("TRANSACTION"), data |-> JObj([summary |-> JStr("go"), action_type |-> JStr("TRANSFER"), params |-> JObj([amount |-> JStr("10"), to_address |-> JStr("")])])])]}

JsonParses(text) == \E e \in JsonTexts : e.text = text
JsonParse(text) == (CHOOSE e \in JsonTexts : e.text = text).value

\* ------------------------------------------------------------- the schema
ActionTypes == {"TRANSFER", "BATCH_TRANSFER", "SWAP", "STAKE", "DEFI_SUPPLY", "NONE"}
ResponseTypes == {"CHAT", "TRANSACTION"}
StringParams == {"amount", "token", "recipient", "target_token"}
ParamKeys == StringParams \cup {"recipients", "isMax"}

TransactionParamsSchema(p) ==
  /\ p.k = "object"
  /\ \A key \in DOMAIN p.v \cap StringParams : p.v[key].k \in {"string", "null"}
  /\ "recipients" \in DOMAIN p.v =>
       \/ p.v.recipients.k = "null"
       \/ /\ p.v.recipients.k = "array"
          /\ \A i \in DOMAIN p.v.recipients.v : p.v.recipients.v[i].k = "string"
  /\ "isMax" \in DOMAIN p.v => p.v.isMax.k \in {"boolean", "null"}

\* The data schema with action_type declared as any string instead of the enum.
DataSchemaAnyAction(d) ==
  /\ d.k = "object"
  /\ Get(d, "summary").k = "string"
  /\ Get(d, "action_type").k = "string"
  /\ TransactionParamsSchema(Get(d, "params"))

TransactionDataSchema(d) ==
  /\ d.k = "object"
  /\ Get(d, "summary").k = "string"
  /\ Get(d, "action_type").k = "string"
  /\ Get(d, "action_type").v \in ActionTypes
  /\ TransactionParamsSchema(Get(d, "params"))

TransactionResponseSchema(r) ==
  /\ r.k = "object"
  /\ Get(r, "type").k = "string"
  /\ Get(r, "type").v \in ResponseTypes
  /\ TransactionDataSchema(Get(r, "data"))

\* What TransactionResponseSchema.parse returns for a value it accepts: the
\* declared keys, the others stripped.
Validated(r) ==
  JObj([type |-> r.v.type,
        data |-> JObj([summary |-> r.v.data.v.summary,
                       action_type |-> r.v.data.v.action_type,
                       params |-> JObj([key \in DOMAIN r.v.data.v.params.v \cap ParamKeys |->
                                          r.v.data.v.params.v[key]])])])

ChatNone(summary) ==
  JObj([type |-> JStr("CHAT"),
        data |-> JObj([summary |-> JStr(summary), action_type |-> JStr("NONE"),
                       params |-> JObj(<<>>)])])

\* ------------------------------------------------ getSafeFallbackResponse
Turkish == {"c-cedilla", "g-breve", "dotless-i", "o-umlaut", "s-cedilla", "u-umlaut",
            "C-cedilla", "G-breve", "I", "I-dot", "O-umlaut", "S-cedilla", "U-umlaut"}
Spanish == {"n-tilde", "a-acute", "e-acute", "i-acute", "o-acute", "u-acute", "u-umlaut",
            "N-tilde", "A-acute", "E-acute", "I-acute", "O-acute", "U-acute", "U-umlaut"}
French == {"a-grave", "a-circumflex", "a-umlaut", "e-acute", "e-grave", "e-circumflex",
           "e-umlaut", "i-umlaut", "i-circumflex", "o-circumflex", "u-grave",
           "u-circumflex", "u-umlaut", "y-umlaut", "c-cedilla",
           "A-grave", "A-circumflex", "A-umlaut", "E-acute", "E-grave", "E-circumflex",
           "E-umlaut", "I-umlaut", "I-circumflex", "O-circumflex", "U-grave",
           "U-circumflex", "U-umlaut", "Y-umlaut", "C-cedilla"}
German == {"a-umlaut", "o-umlaut", "u-umlaut", "eszett", "A-umlaut", "O-umlaut", "U-umlaut"}

\* /[...]/.test(userMessage)
Test(class, userMessage) == \E i \in DOMAIN userMessage : userMessage[i] \in class

getSafeFallbackResponse(userMessage) ==
  ChatNone(CASE Test(Turkish, userMessage) -> "Teknik bir sorun olustu ..."
             [] Test(Spanish, userMessage) -> "Ocurrio un problema tecnico ..."
             [] Test(French, userMessage) -> "Un probleme technique s est produit ..."
             [] Test(German, userMessage) -> "Ein technisches Problem ist aufgetreten ..."
             [] OTHER -> "A technical issue occurred ...")

\* ------------------------------------------------ analyzeTransactionIntent
allowedModels == {"gemini-2.5-flash", "gemini-1.5-pro"}
ModelNames == allowedModels \cup {"gemini-pro"}

\* What a call of the function ends with: an intent it returns (with the
\* path that produced it), or an exception that leaves it.
Return(intent, class) == [raised |-> FALSE, intent |-> intent, class |-> class]
Raise == [raised |-> TRUE, intent |-> JUndefined, class |-> "fault"]
NoOutcome == [raised |-> FALSE, intent |-> JUndefined, class |-> "none"]

\* The early return when the API key is missing.
MissingKey ==
  Return(ChatNone("Sistem Hatasi: API Anahtari eksik ..."), "config")

\* The reply to status 429.
RateLimited ==
  Return(ChatNone("Sistem su an yogun ..."), "rate-limit")

\* The catch of the outer try: whatever was thrown inside becomes a reply.
OuterCatch ==
  Return(ChatNone("Sistem su an mesgul ..."), "fault")

\* Lines 544-552 on the parsed value: to_address becomes recipient, a null or
\* missing params becomes {}.  threw: the statement raised a TypeError (a
\* property read on null, or in a module, which is strict code, a property
\* assignment on a primitive).
Normalised(parsedData) ==
  IF parsedData.k \in {"null", "undefined"} THEN [threw |-> TRUE, value |-> parsedData]
  ELSE
    LET data == Get(parsedData, "data")
        params == GetOptional(data, "params")
        to_address == GetOptional(params, "to_address")
        mapped == IF Truthy(to_address)
                    THEN SetKey(parsedData, "data",
                           SetKey(data, "params",
                             DeleteKey(SetKey(params, "recipient", to_address),
                                       "to_address")))
                    ELSE parsedData
        data2 == Get(mapped, "data")
        params2 == GetOptional(data2, "params")
    IN IF Truthy(data2) /\ params2.k \in {"null", "undefined"}
         THEN IF data2.k = "object"
                THEN [threw |-> FALSE,
                      value |-> SetKey(mapped, "data", SetKey(data2, "params", JObj(<<>>)))]
                ELSE IF data2.k = "array"
                       THEN [threw |-> FALSE, value |-> mapped]
                       ELSE [threw |-> TRUE, value |-> mapped]
         ELSE [threw |-> FALSE, value |-> mapped]

\* What JSON.parse yields for the output (as it is or as repaired), undefined
\* where the function returns before it has a parsed value.
Parsed(raw) ==
  IF raw = <<>> \/ Len(Trim(raw)) < MIN_TEXT_LENGTH THEN JUndefined
  ELSE
    LET text == cleanJsonOutput(raw) IN
    IF text = <<>> \/ Len(Trim(text)) < MIN_TEXT_LENGTH THEN JUndefined
    ELSE IF JsonParses(text) THEN JsonParse(text)
    ELSE IF JsonParses(tryFixIncompleteJSON(text)) THEN JsonParse(tryFixIncompleteJSON(text))
    ELSE JUndefined

\* The retry of the parse: whether tryFixIncompleteJSON is called, with the
\* text it is given and the text it returns.
Retried(raw) ==
  IF raw = <<>> \/ Len(Trim(raw)) < MIN_TEXT_LENGTH
    THEN [called |-> FALSE, text |-> <<>>, fixedText |-> <<>>]
  ELSE
    LET text == cleanJsonOutput(raw) IN
    IF text = <<>> \/ Len(Trim(text)) < MIN_TEXT_LENGTH \/ JsonParses(text)
      THEN [called |-> FALSE, text |-> <<>>, fixedText |-> <<>>]
      ELSE [called |-> TRUE, text |-> text, fixedText |-> tryFixIncompleteJSON(text)]

\* The argument of TransactionResponseSchema.parse, undefined where the
\* function does not get to call it.
SchemaInput(raw) ==
  IF Parsed(raw) = JUndefined \/ Normalised(Parsed(raw)).threw THEN JUndefined
  ELSE Normalised(Parsed(raw)).value

\* The function from response.text() on.
ResponseHandled(userMessage, raw) ==
  IF raw = <<>> \/ Len(Trim(raw)) < MIN_TEXT_LENGTH
    THEN Return(getSafeFallbackResponse(userMessage), "short")
  ELSE
    LET text == cleanJsonOutput(raw) IN
    IF text = <<>> \/ Len(Trim(text)) < MIN_TEXT_LENGTH
      THEN Return(getSafeFallbackResponse(userMessage), "short")
    ELSE IF ~JsonParses(text) /\ ~JsonParses(tryFixIncompleteJSON(text))
      THEN Return(getSafeFallbackResponse(userMessage), "unparseable")
    ELSE
      LET parsedData == IF JsonParses(text) THEN JsonParse(text)
                        ELSE JsonParse(tryFixIncompleteJSON(text))
          n == Normalised(parsedData)
      IN IF n.threw THEN OuterCatch
         ELSE IF TransactionResponseSchema(n.value)
                THEN Return(Validated(n.value), "ok")
                ELSE Return(getSafeFallbackResponse(userMessage), "schema")

\* The module as loaded: GOOGLE_API_KEY is read once.
Loaded(apiKey) ==
  [pc |-> "idle", apiKey |-> apiKey, userMessage |-> <<>>, validModelName |-> "none",
   calls |-> 0, text |-> <<>>, parsedData |-> JUndefined, schemaInput |-> JUndefined,
   retry |-> [called |-> FALSE, text |-> <<>>, fixedText |-> <<>>],
   responded |-> FALSE, outcome |-> NoOutcome]

Ended(outcome) ==
  ex' = [ex EXCEPT !.pc = IF outcome.raised THEN "raised" ELSE "returned",
                   !.outcome = outcome]

\* A call, up to the await of generateContent.
Called(userMessage, modelName) ==
  LET validModelName == IF modelName \in allowedModels THEN modelName
                        ELSE "gemini-2.5-flash"
  IN IF ~ex.apiKey
       THEN ex' = [ex EXCEPT !.pc = "returned", !.userMessage = userMessage,
                             !.validModelName = validModelName,
                             !.outcome = MissingKey]
       ELSE ex' = [ex EXCEPT !.pc = "generating", !.userMessage = userMessage,
                             !.validModelName = validModelName, !.calls = 1]

analyzeTransactionIntent(userMessage, modelName) ==
  /\ ex.pc = "idle"
  /\ Called(userMessage, modelName)
  /\ UNCHANGED <<managerVars, gw, api, ch>>

\* generateContent rejects with a status (0: an error that carries none).
\* On 404 the function calls itself with the other model and returns what
\* that call returns; the inner call reaches generateContent again.
GenerateContentFails(status) ==
  /\ ex.pc = "generating"
  /\ IF status = 404
       THEN /\ ex.calls < MaxCalls
            /\ ex' = [ex EXCEPT !.validModelName =
                                   IF ex.validModelName # "gemini-1.5-pro"
                                     THEN "gemini-1.5-pro" ELSE "gemini-2.5-flash",
                                !.calls = ex.calls + 1]
       ELSE IF status = 429 THEN Ended(RateLimited) ELSE Ended(OuterCatch)
  /\ UNCHANGED <<managerVars, gw, api, ch>>

\* generateContent resolves and response.text() yields raw.
GenerateContentResponds(raw) ==
  /\ ex.pc = "generating"
  /\ LET outcome == ResponseHandled(ex.userMessage, raw)
     IN ex' = [ex EXCEPT !.pc = IF outcome.raised THEN "raised" ELSE "returned",
                         !.text = raw,
                         !.parsedData = Parsed(raw),
                         !.schemaInput = SchemaInput(raw),
                         !.retry = Retried(raw),
                         !.responded = TRUE,
                         !.outcome = outcome]
  /\ UNCHANGED <<managerVars, gw, api, ch>>

Statuses == {404, 429, 500, 0}

NextExtract ==
  \/ \E userMessage \in Utterances : \E modelName \in ModelNames :
       analyzeTransactionIntent(userMessage, modelName)
  \/ \E status \in Statuses : GenerateContentFails(status)
  \/ \E raw \in RawOutputs : GenerateContentResponds(raw)

\* ======================================================= Storage Gateway
\* One call of uploadToWalrus or downloadFromWalrus: the client function, the
\* proxy route it fetches and the Walrus service behind the route.
Idle == [pc |-> "idle"]

\* A response body that is not JSON text.
NotJson == [k |-> "not-json"]
Response(status, body) == [status |-> status, body |-> body]
\* Response.ok
Ok(response) == response.status \in 200..299

\* A settled promise, and the same for a block of code: the value it returns
\* or the error it throws.
Fulfilled(v) == [rejected |-> FALSE, v |-> v]
Rejected(e) == [rejected |-> TRUE, v |-> e]

\* response.json()
Json(response) ==
  IF response.body = NotJson THEN Rejected("SyntaxError") ELSE Fulfilled(response.body)

\* a || b
Or(a, b) == IF Truthy(a) THEN a ELSE b

\* JSON.stringify of an aggregate: a member that is undefined is left out.
Stringify(data) ==
  LET members ==
        [walletAddress |-> JStr(data.walletAddress),
         chatHistory |-> JArr([i \in 1..Len(data.chatHistory) |-> JNum(data.chatHistory[i])]),
         aiSummary |-> JNum(data.aiSummary),
         activityLogs |-> JArr([i \in 1..Len(data.activityLogs) |-> JNum(data.activityLogs[i])]),
         contacts |-> JNum(data.contacts),
         lastUpdated |-> JNum(data.lastUpdated),
         blobId |-> JNum(data.blobId)]
  IN IF data.blobId = 0 THEN DeleteKey(JObj(members), "blobId") ELSE JObj(members)

\* What the Walrus service does with the request of the route: it answers,
\* the connection fails, or it is silent until the route aborts.
Answers(status, body) == [kind |-> "response", status |-> status, body |-> body]
ConnectionFails == [kind |-> "network"]
Silent == [kind |-> "timeout"]

ErrorBody(error) == JObj([error |-> JStr(error)])

\* The PUT route: the response it sends for a request body.
PUT(body, upstream) ==
  IF body = NotJson
    THEN Response(400, ErrorBody("Request body is required"))
    ELSE CASE upstream.kind = "timeout" -> Response(408, ErrorBody("Request timeout"))
           [] upstream.kind = "network" -> Response(500, ErrorBody("Upload failed"))
           [] OTHER ->
                IF ~Ok(upstream)
                  THEN Response(upstream.status, ErrorBody("Walrus upload failed"))
                  ELSE IF Json(upstream).rejected \/ upstream.body.k = "null"
                         THEN Response(500, ErrorBody("Upload failed"))
                         ELSE Response(200, upstream.body)

\* The GET route: the response it sends for a blobId parameter.
GET(blobId, upstream) ==
  IF blobId = ""
    THEN Response(400, ErrorBody("blobId parameter is required"))
    ELSE CASE upstream.kind = "timeout" -> Response(408, ErrorBody("Request timeout"))
           [] upstream.kind = "network" -> Response(500, ErrorBody("Download failed"))
           [] OTHER ->
                IF ~Ok(upstream)
                  THEN IF upstream.status = 404
                         THEN Response(404, ErrorBody("Blob not found"))
                         ELSE Response(upstream.status, ErrorBody("Walrus download failed"))
                  ELSE IF Json(upstream).rejected
                         THEN Response(500, ErrorBody("Download failed"))
                         ELSE Response(200, upstream.body)

\* o.key throws when o is null or undefined.
NoMembers(o) == o.k \in {"null", "undefined"}

\* The try block of uploadToWalrus from the settled fetch on.
UploadTry(fetched) ==
  IF fetched.rejected THEN fetched
  ELSE IF ~Ok(fetched.v) THEN Fulfilled(Null)
  ELSE LET parsed == Json(fetched.v)
       IN IF parsed.rejected THEN parsed
          ELSE IF NoMembers(parsed.v) THEN Rejected("TypeError")
          ELSE LET result == parsed.v
                   blobId ==
                     Or(GetOptional(GetOptional(Get(result, "newlyCreated"),
                                                "blobObject"), "blobId"),
                        GetOptional(Get(result, "alreadyCertified"), "blobId"))
               IN IF Truthy(blobId) THEN Fulfilled(blobId) ELSE Fulfilled(Null)

\* The catch block is missing.
UploadRethrows(tried) == tried

\* The catch block of uploadToWalrus.
UploadCatch(tried) == IF tried.rejected THEN Fulfilled(Null) ELSE tried

\* The try block of downloadFromWalrus from the settled fetch on; the log
\* line reads data.walletAddress, data.chatHistory.length and
\* data.activityLogs.length.
DownloadTry(fetched) ==
  IF fetched.rejected THEN fetched
  ELSE IF ~Ok(fetched.v) THEN Fulfilled(Null)
  ELSE LET parsed == Json(fetched.v)
       IN IF parsed.rejected THEN parsed
          ELSE IF \/ NoMembers(parsed.v)
                  \/ NoMembers(Get(parsed.v, "chatHistory"))
                  \/ NoMembers(Get(parsed.v, "activityLogs"))
                 THEN Rejected("TypeError")
                 ELSE Fulfilled(parsed.v)

\* The catch block is missing.
DownloadRethrows(tried) == tried

\* The catch block of downloadFromWalrus.
DownloadCatch(tried) == IF tried.rejected THEN Fulfilled(Null) ELSE tried

\* Sample inputs and answers.
Pointers == {"blob-1", "blob-2"}
GatewayAggregates ==
  {[createEmptyMemory(a) EXCEPT !.chatHistory = c, !.blobId = b] :
     a \in Accounts, c \in {<<>>, <<1>>}, b \in {0, 1}}
NewlyStored(P) ==
  JObj([newlyCreated |-> JObj([blobObject |-> JObj([blobId |-> JStr(P)])])])
AlreadyPresent(P) == JObj([alreadyCertified |-> JObj([blobId |-> JStr(P)])])
NoBlobId ==
  {JObj([newlyCreated |-> JObj([blobObject |-> JObj([id |-> JStr("0x1")])])]),
   JObj([alreadyCertified |-> JObj([blobId |-> JStr("")])]),
   JObj([error |-> JStr("busy")]),
   JNull, JNum(1), NotJson}
PublisherBodies ==
  {NewlyStored(P) : P \in Pointers} \cup {AlreadyPresent(P) : P \in Pointers}
    \cup NoBlobId
Malformed ==
  {JObj([walletAddress |-> JStr("A")]),
   JObj([walletAddress |-> JStr("A"), chatHistory |-> JArr(<<>>), activityLogs |-> JNull]),
   JNull, JNum(1), NotJson}
AggregatorBodies == {Stringify(m) : m \in GatewayAggregates} \cup Malformed
HttpStatuses == {200, 201, 400, 404, 500}

\* uploadToWalrus up to the await of fetchWithTimeout.
uploadToWalrus(data) ==
  /\ gw.pc = "idle"
  /\ gw' = [pc |-> "fetch", op |-> "put", arg |-> data, body |-> Stringify(data),
            elapsed |-> 0]
  /\ UNCHANGED <<managerVars, ex, api, ch>>

\* downloadFromWalrus up to the await of fetchWithTimeout.
downloadFromWalrus(blobId) ==
  /\ gw.pc = "idle"
  /\ gw' = [pc |-> "fetch", op |-> "get", arg |-> blobId, body |-> JStr(blobId),
            elapsed |-> 0]
  /\ UNCHANGED <<managerVars, ex, api, ch>>

\* The timeout handed to fetchWithTimeout.
Timeout == IF gw.op = "put" THEN UPLOAD_TIMEOUT ELSE DOWNLOAD_TIMEOUT

\* Time passes while the fetch is pending, up to the moment of its abort.
Wait ==
  /\ gw.pc = "fetch"
  /\ gw.elapsed < Timeout
  /\ gw' = [gw EXCEPT !.elapsed = Min({@ + GatewayStep, Timeout})]
  /\ UNCHANGED <<managerVars, ex, api, ch>>

\* The rest of the client function once fetchWithTimeout has settled.
Settled(cause, upstream, fetched) ==
  gw' = [pc |-> "done", op |-> gw.op, arg |-> gw.arg, body |-> gw.body,
         elapsed |-> gw.elapsed, cause |-> cause, upstream |-> upstream,
         outcome |-> IF gw.op = "put" THEN UploadCatch(UploadTry(fetched))
                                      ELSE DownloadCatch(DownloadTry(fetched))]

\* fetchWithTimeout: the timer aborts the fetch, rethrown as a timeout error.
FetchAborts ==
  /\ gw.pc = "fetch"
  /\ gw.elapsed >= Timeout
  /\ Settled("abort", Silent, Rejected("Request timeout"))
  /\ UNCHANGED <<managerVars, ex, api, ch>>

\* fetchWithTimeout: the fetch of the route fails.
FetchRejects ==
  /\ gw.pc = "fetch"
  /\ Settled("network", ConnectionFails, Rejected("TypeError"))
  /\ UNCHANGED <<managerVars, ex, api, ch>>

\* The route answers: at once when the service answers or cannot be reached,
\* at its own abort, which falls together with the client's, when the
\* service is silent.
RouteResponds(upstream) ==
  /\ gw.pc = "fetch"
  /\ IF upstream.kind = "timeout"
       THEN gw.elapsed >= Timeout
       ELSE gw.elapsed < Timeout
  /\ upstream.kind = "response" =>
       upstream.body \in (IF gw.op = "put" THEN PublisherBodies ELSE AggregatorBodies)
  /\ Settled("response", upstream,
             Fulfilled(IF gw.op = "put" THEN PUT(gw.body, upstream)
                                        ELSE GET(gw.arg, upstream)))
  /\ UNCHANGED <<managerVars, ex, api, ch>>

Upstreams ==
  {Answers(status, body) : status \in HttpStatuses,
                           body \in PublisherBodies \cup AggregatorBodies}
    \cup {ConnectionFails, Silent}

NextGateway ==
  \/ \E data \in GatewayAggregates : uploadToWalrus(data)
  \/ \E blobId \in Pointers : downloadFromWalrus(blobId)
  \/ Wait
  \/ FetchAborts
  \/ FetchRejects
  \/ \E upstream \in Upstreams : RouteResponds(upstream)

\* ===================================================== the analyze route
\* One request to POST /api/analyze.  A string of the request body is the
\* sequence of its characters, as the user messages of the extractor are.
NoRequest == [pc |-> "idle"]

\* The request: whether req.json() yields a value, and the value.
Unreadable == [readable |-> FALSE, json |-> JUndefined]
Readable(json) == [readable |-> TRUE, json |-> json]

\* !message
Not(message) ==
  \/ message.k \in {"null", "undefined"}
  \/ message.k = "string" /\ Len(message.v) = 0

\* A destructuring default: the default replaces undefined only.
Default(value, default) == IF value = JUndefined THEN default ELSE value

\* The catch block: status 500 with a CHAT/NONE body that quotes the error.
Fault(message) == Response(500, ChatNone(message))

\* The try block up to the call of the extractor: the response of the catch
\* block where a statement throws, no response where the call is reached.
Thrown(req) ==
  IF ~req.readable
    THEN Fulfilled(Fault("Sistem Hatasi: Unexpected end of JSON input"))
  ELSE IF req.json.k \in {"null", "undefined"}
    THEN Fulfilled(Fault("Sistem Hatasi: Cannot destructure property 'message' of 'body'"))
  ELSE IF Default(Get(req.json, "history"), JArr(<<>>)).k = "null"
    THEN Fulfilled(Fault("Sistem Hatasi: Cannot read properties of null (reading 'length')"))
  ELSE IF Not(Get(req.json, "message"))
    THEN Fulfilled(Fault("Sistem Hatasi: Mesaj icerigi bos geldi!"))
  ELSE Rejected("none")

POST(req) ==
  /\ api.pc = "idle"
  /\ ex.pc = "idle"
  /\ IF ~Thrown(req).rejected
       THEN /\ api' = [pc |-> "responded", response |-> Thrown(req).v]
            /\ UNCHANGED ex
       ELSE /\ api' = [pc |-> "calling"]
            /\ Called(Get(req.json, "message").v,
                      Default(Get(req.json, "model"), JStr("gemini-2.5-flash")).v)
  /\ UNCHANGED <<managerVars, gw, ch>>

\* The await of analyzeTransactionIntent settles: the result is sent with
\* status 200, an exception goes to the catch block.
Responds ==
  /\ api.pc = "calling"
  /\ ex.pc \in {"returned", "raised"}
  /\ api' = [pc |-> "responded",
             response |-> IF ex.pc = "raised" THEN Fault("Sistem Hatasi: ...")
                          ELSE Response(200, ex.outcome.intent)]
  /\ UNCHANGED <<managerVars, ex, gw, ch>>

Requests ==
  {Unreadable, Readable(JNull), Readable(JObj(<<>>)),
   Readable(JObj([message |-> JStr(<<>>)])),
   Readable(JObj([message |-> JStr(<<"s", "e", "n", "d">>), history |-> JNull]))}
    \cup {Readable(JObj([message |-> JStr(userMessage)])) : userMessage \in Utterances}
    \cup {Readable(JObj([message |-> JStr(userMessage), model |-> JStr(modelName)])) :
            userMessage \in Utterances, modelName \in ModelNames}

NextAnalyze ==
  \/ \E req \in Requests : POST(req)
  \/ \E status \in Statuses : GenerateContentFails(status)
  \/ \E raw \in RawOutputs : GenerateContentResponds(raw)
  \/ Responds

\* ==================================================== the chat component
\* ChatInterface with the page that holds the intent and the DashboardPanel
\* that previews it.  Strings are sequences of characters; an optional string
\* that is absent, null or empty is <<>> (the code tests them with ! and ||).
Upper == <<"A", "B", "C", "D", "E", "F", "G", "H", "I", "J", "K", "L", "M",
           "N", "O", "P", "Q", "R", "S", "T", "U", "V", "W", "X", "Y", "Z">>
Lower == <<"a", "b", "c", "d", "e", "f", "g", "h", "i", "j", "k", "l", "m",
           "n", "o", "p", "q", "r", "s", "t", "u", "v", "w", "x", "y", "z">>

\* String.prototype.toLowerCase
toLowerCase(s) ==
  [i \in 1..Len(s) |->
     IF \E j \in DOMAIN Upper : Upper[j] = s[i]
       THEN Lower[CHOOSE j \in DOMAIN Upper : Upper[j] = s[i]]
       ELSE s[i]]

\* String.prototype.startsWith
startsWith(s, searchString) ==
  /\ Len(searchString) <= Len(s)
  /\ SubSeq(s, 1, Len(searchString)) = searchString

\* The lookup that compares the strings as they are.
resolveCaseSensitive(recipient, contacts) ==
  IF startsWith(recipient, <<"0", "x">>)
    THEN LET found == {i \in DOMAIN contacts : contacts[i].address = recipient}
         IN [address |-> recipient,
             name |-> IF found # {} /\ contacts[Min(found)].name # <<>>
                        THEN JStr(contacts[Min(found)].name) ELSE JNull]
    ELSE LET found == {i \in DOMAIN contacts : contacts[i].name = recipient}
         IN IF found # {}
              THEN [address |-> contacts[Min(found)].address,
                    name |-> JStr(contacts[Min(found)].name)]
              ELSE [address |-> <<>>, name |-> JNull]

\* resolveRecipient on the contacts of the render; Array.prototype.find
\* yields the first contact that matches.
resolveRecipient(recipient, contacts) ==
  IF startsWith(recipient, <<"0", "x">>)
    THEN LET found == {i \in DOMAIN contacts :
                         toLowerCase(contacts[i].address) = toLowerCase(recipient)}
         IN [address |-> recipient,
             name |-> IF found # {} /\ contacts[Min(found)].name # <<>>
                        THEN JStr(contacts[Min(found)].name) ELSE JNull]
    ELSE LET found == {i \in DOMAIN contacts :
                         toLowerCase(contacts[i].name) = toLowerCase(recipient)}
         IN IF found # {}
              THEN [address |-> contacts[Min(found)].address,
                    name |-> JStr(contacts[Min(found)].name)]
              ELSE [address |-> <<>>, name |-> JNull]

\* The panel's formatRecipient on the panel's contacts: a name that is not
\* a contact's is returned as the address.
formatRecipient(recipient, contacts) ==
  IF recipient = <<>> THEN [address |-> <<>>, name |-> JNull]
  ELSE IF startsWith(recipient, <<"0", "x">>)
    THEN LET found == {i \in DOMAIN contacts :
                         toLowerCase(contacts[i].address) = toLowerCase(recipient)}
         IN [address |-> recipient,
             name |-> IF found # {} /\ contacts[Min(found)].name # <<>>
                        THEN JStr(contacts[Min(found)].name) ELSE JNull]
  ELSE LET found == {i \in DOMAIN contacts :
                       toLowerCase(contacts[i].name) = toLowerCase(recipient)}
       IN [address |-> IF found # {} /\ contacts[Min(found)].address # <<>>
                         THEN contacts[Min(found)].address ELSE recipient,
           name |-> IF found # {} /\ contacts[Min(found)].name # <<>>
                      THEN JStr(contacts[Min(found)].name) ELSE JNull]

\* parseFloat on the amounts of the sample intents.
NaN == [nan |-> TRUE, v |-> 0]
parseFloat(s) ==
  CASE s = <<"1", "0">> -> [nan |-> FALSE, v |-> 10]
    [] s = <<"0">> -> [nan |-> FALSE, v |-> 0]
    [] OTHER -> NaN
\* BigInt(Math.floor(parseFloat(amount) * 1_000_000_000)) throws on NaN.
Builds(amount) == ~parseFloat(amount).nan

\* The intent the page holds (setTransactionIntent) and the wallet request.
Cleared == [handed |-> FALSE]
Handed(aiData) == [handed |-> TRUE, v |-> aiData]
NoDispatch == [k |-> "none"]
Dispatch(origin, action_type, amount, to) ==
  [k |-> "tx", origin |-> origin, action_type |-> action_type, amount |-> amount, to |-> to]

\* The components as mounted for an account with the contacts loaded from
\* localStorage.  The panel keeps its own list, which it reads when the
\* account changes and not when the chat's list does.
\* localStorage's sui_address_book_<address> entry: JSON.stringify writes a
\* contact list as a text, JSON.parse reads the text back as a new array.  The
\* text of an empty list is "[]", a non-empty string.
NoBook == [saved |-> FALSE, text |-> <<>>]
stringify(contacts) == [saved |-> TRUE, text |-> contacts]
\* The hook's memory as the chat's effects read it: null until loadMemory has
\* set it; ref is the identity of its contacts array.
NotLoaded == [loaded |-> FALSE, contacts |-> <<>>, ref |-> 0, blobId |-> FALSE]

\* The state also holds: contactsRef, the identity of the contacts array (React
\* skips a setContacts of the array it already holds); due, the effects whose
\* dependencies changed in the last render; armed, the save timer the hook
\* armed last; removed, the name handleDeleteContact removed last.
Mounted(account, contacts) ==
  [account |-> account, contacts |-> contacts, panelContacts |-> contacts,
   formatted |-> <<>>, messages |-> <<>>, intent |-> Cleared,
   digest |-> "", resolved |-> <<>>, pending |-> NoDispatch, built |-> 0, logs |-> <<>>,
   toast |-> "", clearTimer |-> FALSE, calls |-> 0, last |-> [type |-> "none"],
   lookups |-> <<>>, contactsRef |-> 0,
   book |-> IF account = NoAccount THEN NoBook ELSE stringify(contacts),
   memory |-> NotLoaded, due |-> {}, armed |-> "none", removed |-> <<>>]
Rendered == Mounted(NoAccount, <<>>)

\* An array identity that neither the contacts state nor the memory holds.
NewArray(c) == CHOOSE r \in 0..MaxRef : r # c.contactsRef /\ r # c.memory.ref

setContacts(c, contacts, ref) ==
  IF ref = c.contactsRef THEN c
  ELSE [c EXCEPT !.contacts = contacts, !.contactsRef = ref, !.due = @ \cup {"save"}]

\* The hook's setMemory with an updater: nothing on a null memory, else a new
\* memory object, and a 100 ms timer with no blobId or scheduleAutoSave.
Armed(c) == IF c.memory.blobId THEN "debounce" ELSE "fast"
addToWalrusMemory(c) ==
  IF ~c.memory.loaded THEN c
  ELSE [c EXCEPT !.due = @ \cup {"load"}, !.armed = Armed(c)]
updateWalrusContacts(c, contacts, ref) ==
  IF ~c.memory.loaded THEN c
  ELSE [c EXCEPT !.memory = [@ EXCEPT !.contacts = contacts, !.ref = ref],
                 !.due = @ \cup {"load"}, !.armed = Armed(c)]

\* The effect with dependencies [address, memory?.contacts, memory].
contactLoadEffect(c) ==
  LET parsedContacts == NewArray(c)
  IN IF c.account = NoAccount THEN setContacts(c, <<>>, parsedContacts)
     ELSE IF c.memory.loaded /\ Len(c.memory.contacts) > 0
       THEN [setContacts(c, c.memory.contacts, c.memory.ref)
               EXCEPT !.book = stringify(c.memory.contacts)]
     ELSE IF c.book.saved
       THEN updateWalrusContacts(setContacts(c, c.book.text, parsedContacts),
                                 c.book.text, parsedContacts)
     ELSE setContacts(c, <<>>, parsedContacts)

\* The effect with dependencies [contacts, address]; contacts is the list of
\* the render the effect belongs to.
contactSaveEffect(contacts, c) ==
  IF c.account = NoAccount THEN c ELSE [c EXCEPT !.book = stringify(contacts)]

\* addMessageToChat: the text (by its template) and the strings it quotes.
Say(c, text, names) ==
  [addToWalrusMemory(c) EXCEPT !.messages = Append(@, [text |-> text, names |-> names])]
onTransactionGenerated(c, response) == [c EXCEPT !.intent = response]
\* addActivityLog
Logged(c, type, status, digest) ==
  [c EXCEPT !.logs = Append(@, [type |-> type, status |-> status, digest |-> digest])]

\* The test of the resolved address is missing.
NeverUnresolved(address) == FALSE
\* !address
Unresolved(address) == address = <<>>

Looked(c, tokens) ==
  [c EXCEPT !.lookups = [i \in DOMAIN tokens |->
                           [token |-> tokens[i], contacts |-> c.contacts,
                            result |-> resolveRecipient(tokens[i], c.contacts)]]]

TransferHandled(c, params) ==
  LET recipientInput == IF params.recipient # <<>> THEN params.recipient
                        ELSE params.to_address
      r == resolveRecipient(recipientInput, c.contacts)
      looked == Looked(c, <<recipientInput>>)
  IN IF params.amount = <<>> \/ recipientInput = <<>>
       THEN onTransactionGenerated(Say(c, "missing-parameters", <<>>), Cleared)
     ELSE IF Unresolved(r.address)
       THEN onTransactionGenerated(
              Say(looked, "contact-not-found", <<recipientInput>>), Cleared)
     ELSE IF ~Builds(params.amount)
       THEN onTransactionGenerated(
              Say([looked EXCEPT !.resolved = r.address], "build-error", <<>>), Cleared)
     ELSE [looked EXCEPT !.resolved = r.address,
                         !.built = @ + 1,
                         !.pending = Dispatch("chat", "TRANSFER", params.amount, r.address)]

BatchHandled(c, aiData) ==
  LET recipients == aiData.params.recipients
      looked == Looked(c, recipients)
      unresolvedRecipients ==
        SelectSeq(recipients,
                  LAMBDA t : Unresolved(resolveRecipient(t, c.contacts).address))
  IN IF recipients = <<>>
       THEN onTransactionGenerated(Say(c, "missing-recipients", <<>>), Cleared)
     ELSE IF unresolvedRecipients # <<>>
       THEN onTransactionGenerated(
              Say(looked, "invalid-recipients", unresolvedRecipients), Cleared)
     ELSE onTransactionGenerated(looked, Handed(aiData))

SupplyHandled(c, aiData) ==
  LET amount == aiData.params.amount
      shown == onTransactionGenerated(c, Handed(aiData))
  IN IF amount = <<>> \/ (~parseFloat(amount).nan /\ parseFloat(amount).v <= 0)
       THEN onTransactionGenerated(Say(c, "invalid-amount", <<>>), Cleared)
     ELSE IF c.account = NoAccount
       THEN onTransactionGenerated(Say(c, "connect-wallet", <<>>), Cleared)
     ELSE IF ~Builds(amount)
       THEN onTransactionGenerated(Say(shown, "build-error", <<>>), Cleared)
     ELSE [shown EXCEPT !.built = @ + 1,
                        !.pending = Dispatch("chat", "DEFI_SUPPLY", amount, <<>>)]

\* handleAIResponse: the summary is shown first, then the action is taken;
\* a response without data ends in the catch block.
AIResponseHandled(c, aiData) ==
  IF aiData.type = "malformed"
    THEN onTransactionGenerated(Say(c, "processing-error", <<>>), Cleared)
  ELSE
    LET said == Say(c, "summary", <<>>) IN
    IF aiData.type # "TRANSACTION" THEN said
    ELSE CASE aiData.action_type = "TRANSFER" -> TransferHandled(said, aiData.params)
           [] aiData.action_type = "BATCH_TRANSFER" -> BatchHandled(said, aiData)
           [] aiData.action_type = "DEFI_SUPPLY" -> SupplyHandled(said, aiData)
           [] aiData.action_type = "SWAP" ->
                onTransactionGenerated(Say(said, "swap-unavailable", <<>>), Cleared)
           [] aiData.action_type = "STAKE" ->
                onTransactionGenerated(Say(said, "stake-unavailable", <<>>), Handed(aiData))
           [] OTHER -> onTransactionGenerated(said, Handed(aiData))

\* One wallet request at a time: the next response is handled when the
\* wallet has answered the request before it.
handleAIResponse(aiData) ==
  /\ ch.calls < MaxChatCalls
  /\ ch.pending = NoDispatch
  /\ ch' = AIResponseHandled([ch EXCEPT !.calls = @ + 1, !.last = aiData,
                                        !.lookups = <<>>], aiData)
  /\ UNCHANGED <<managerVars, ex, gw, api>>

handleAddContact(newContactName, newContactAddress) ==
  /\ ch.calls < MaxChatCalls
  /\ ch.due = {}
  /\ LET c == [ch EXCEPT !.calls = @ + 1]
     IN ch' =
          IF c.account = NoAccount THEN Say(c, "connect-wallet", <<>>)
          ELSE IF Trim(newContactName) = <<>> \/ Trim(newContactAddress) = <<>>
            THEN Say(c, "enter-both", <<>>)
          ELSE IF ~startsWith(newContactAddress, <<"0", "x">>)
            THEN Say(c, "invalid-address", <<>>)
          ELSE IF \E i \in DOMAIN c.contacts :
                    toLowerCase(c.contacts[i].name) = toLowerCase(newContactName)
            THEN Say(c, "name-exists", <<newContactName>>)
          ELSE IF \E i \in DOMAIN c.contacts :
                    toLowerCase(c.contacts[i].address) = toLowerCase(newContactAddress)
            THEN Say(c, "address-exists", <<>>)
          ELSE LET updated == Append(c.contacts, [name |-> Trim(newContactName),
                                                  address |-> Trim(newContactAddress)])
               IN Say(updateWalrusContacts(
                        setContacts([c EXCEPT !.removed = <<>>], updated, NewArray(c)),
                        updated, NewArray(c)),
                      "contact-added", <<Trim(newContactName)>>)
  /\ UNCHANGED <<managerVars, ex, gw, api>>

handleDeleteContact(name) ==
  /\ ch.calls < MaxChatCalls
  /\ ch.due = {}
  /\ \E i \in DOMAIN ch.contacts : ch.contacts[i].name = name
  /\ LET updatedContacts == SelectSeq(ch.contacts, LAMBDA contact : contact.name # name)
         c == [ch EXCEPT !.calls = @ + 1, !.removed = <<name>>]
     IN ch' = Say(updateWalrusContacts(
                    setContacts(c, updatedContacts, NewArray(c)),
                    updatedContacts, NewArray(c)),
                  "contact-removed", <<name>>)
  /\ UNCHANGED <<managerVars, ex, gw, api>>

\* React runs the effects of the last render in the order of their
\* declaration, the load effect before the save effect; what they set makes
\* the next render.
SyncEffects ==
  /\ ch.due # {}
  /\ LET r == [ch EXCEPT !.due = {}]
         loaded == IF "load" \in ch.due THEN contactLoadEffect(r) ELSE r
     IN ch' = IF "save" \in ch.due THEN contactSaveEffect(ch.contacts, loaded)
              ELSE loaded
  /\ UNCHANGED <<managerVars, ex, gw, api>>

\* loadMemory's setMemory: the aggregate fetched, or createEmptyMemory for an
\* identity with no pointer.
MemoryLoaded(contacts, blobId) ==
  /\ ch.account # NoAccount
  /\ ~ch.memory.loaded
  /\ ch.due = {}
  /\ blobId \/ contacts = <<>>
  /\ ch' = [ch EXCEPT !.memory = [loaded |-> TRUE, contacts |-> contacts,
                                  ref |-> NewArray(ch), blobId |-> blobId],
                      !.due = {"load"}, !.removed = <<>>]
  /\ UNCHANGED <<managerVars, ex, gw, api>>

\* A commit of the hook succeeds: setMemory(prev => ({...prev, blobId, lastUpdated})).
Committed ==
  /\ ch.memory.loaded
  /\ ch.armed # "none"
  /\ ch' = [ch EXCEPT !.memory = [@ EXCEPT !.blobId = TRUE], !.armed = "none",
                      !.due = @ \cup {"load"}]
  /\ UNCHANGED <<managerVars, ex, gw, api>>

\* The panel's Confirm Batch Transfer button; funded: the balance leaves
\* something to send when isMax is set; encoded: the transaction builder
\* accepts a destination that is no 0x address (it is the library's choice
\* to throw on it).
handleBatchTransferTransaction(funded, encoded) ==
  /\ ch.intent.handed
  /\ ch.intent.v.action_type = "BATCH_TRANSFER"
  /\ ch.pending = NoDispatch
  /\ ch.calls < MaxChatCalls
  /\ LET params == ch.intent.v.params
         resolvedRecipients ==
           [i \in DOMAIN params.recipients |->
              [token |-> params.recipients[i], contacts |-> ch.panelContacts,
               result |-> formatRecipient(params.recipients[i], ch.panelContacts)]]
         addresses == [i \in DOMAIN resolvedRecipients |->
                         resolvedRecipients[i].result.address]
         c == [ch EXCEPT !.calls = @ + 1,
                         !.formatted = IF ch.account = NoAccount THEN <<>>
                                       ELSE resolvedRecipients]
     IN ch' =
          IF c.account = NoAccount THEN [c EXCEPT !.toast = "connect-wallet"]
          ELSE IF params.recipients = <<>> THEN [c EXCEPT !.toast = "missing-recipients"]
          ELSE IF \E i \in DOMAIN addresses : addresses[i] = <<>>
            THEN [c EXCEPT !.toast = "invalid-recipients"]
          ELSE IF params.isMax /\ ~funded THEN [c EXCEPT !.toast = "amount-not-positive"]
          ELSE IF ~params.isMax /\ (params.amount = <<>> \/
                    (~parseFloat(params.amount).nan /\ parseFloat(params.amount).v <= 0))
            THEN [c EXCEPT !.toast = "invalid-amount"]
          ELSE IF ~params.isMax /\ ~Builds(params.amount)
            THEN [c EXCEPT !.toast = "build-error"]
          ELSE IF ~encoded /\ \E i \in DOMAIN addresses :
                                ~startsWith(addresses[i], <<"0", "x">>)
            THEN [c EXCEPT !.toast = "build-error"]
          ELSE [c EXCEPT !.built = @ + 1,
                          !.pending = Dispatch("panel", "BATCH_TRANSFER", params.amount,
                                               addresses)]
  /\ UNCHANGED <<managerVars, ex, gw, api>>

\* The wallet executes the request: onSuccess(result) of the call that made it.
onSuccess(digest) ==
  /\ ch.pending # NoDispatch
  /\ LET done == [ch EXCEPT !.pending = NoDispatch, !.digest = digest]
     IN ch' =
          CASE ch.pending.origin = "panel" ->
                 [done EXCEPT !.intent = Cleared, !.toast = "batch-successful"]
            [] ch.pending.action_type = "TRANSFER" ->
                 onTransactionGenerated(
                   Logged(Say(done, "transaction-successful", <<ch.pending.amount>>),
                          "TRANSFER", "success", digest), Cleared)
            [] OTHER ->
                 [Logged(Say(done, "supplied", <<ch.pending.amount>>),
                         "DEFI_SUPPLY", "success", digest) EXCEPT !.clearTimer = TRUE]
  /\ UNCHANGED <<managerVars, ex, gw, api>>

\* The wallet or the user refuses it, or the execution fails: onError(error).
onError ==
  /\ ch.pending # NoDispatch
  /\ LET done == [ch EXCEPT !.pending = NoDispatch]
     IN ch' =
          CASE ch.pending.origin = "panel" -> [done EXCEPT !.toast = "transaction-failed"]
            [] ch.pending.action_type = "TRANSFER" ->
                 onTransactionGenerated(
                   Logged(Say(done, "transaction-failed", <<>>), "TRANSFER", "failed", ""),
                   Cleared)
            [] OTHER -> onTransactionGenerated(Say(done, "supply-failed", <<>>), Cleared)
  /\ UNCHANGED <<managerVars, ex, gw, api>>

\* The 100 ms timer set after a successful supply: onTransactionGenerated(null).
ClearIntentTimer ==
  /\ ch.clearTimer
  /\ ch' = [onTransactionGenerated(ch, Cleared) EXCEPT !.clearTimer = FALSE]
  /\ UNCHANGED <<managerVars, ex, gw, api>>

\* Sample inputs: recipient tokens, contact entries and responses.
Ali == <<"A", "l", "i">>
Tokens ==
  {Ali, <<"a", "l", "i">>, <<"B", "o", "b">>, <<"0", "x", "A", "B">>,
   <<"0", "x", "a", "b">>, <<"0", "X", "A", "B">>, <<"0", "x", "1">>}
ContactNames == {Ali, <<"A", "L", "I">>, <<"A", "l", "i", " ">>, <<" ">>}
ContactAddresses == {<<"0", "x", "A", "B">>, <<"0", "x", "a", "b">>, <<"0", "x", "C">>, <<"A", "B">>}
Params(amount, recipient, to_address, recipients, isMax) ==
  [amount |-> amount, recipient |-> recipient, to_address |-> to_address,
   recipients |-> recipients, isMax |-> isMax]
NoParams == Params(<<>>, <<>>, <<>>, <<>>, FALSE)
Intent(type, action_type, params) ==
  [type |-> type, action_type |-> action_type, params |-> params]
Amounts == {<<"1", "0">>, <<"0">>, <<"a", "b", "c">>, <<>>}
Responses ==
  {[type |-> "malformed"], Intent("CHAT", "NONE", NoParams),
   Intent("TRANSACTION", "NONE", NoParams), Intent("TRANSACTION", "SWAP", NoParams),
   Intent("TRANSACTION", "STAKE", NoParams)}
    \cup {Intent("TRANSACTION", "TRANSFER", Params(amount, recipient, <<>>, <<>>, FALSE)) :
            amount \in Amounts, recipient \in Tokens \cup {<<>>}}
    \cup {Intent("TRANSACTION", "TRANSFER",
                 Params(<<"1", "0">>, <<>>, to_address, <<>>, FALSE)) : to_address \in Tokens}
    \cup {Intent("TRANSACTION", "BATCH_TRANSFER",
                 Params(amount, <<>>, <<>>, recipients, isMax)) :
            amount \in {<<"1", "0">>, <<"a", "b", "c">>},
            recipients \in {<<>>, <<Ali>>, <<<<"a", "l", "i">>, <<"0", "x", "1">>>>,
                            <<Ali, <<"B", "o", "b">>>>,
                            <<<<"B", "o", "b">>, <<"0", "X", "A", "B">>>>},
            isMax \in BOOLEAN}
    \cup {Intent("TRANSACTION", "DEFI_SUPPLY", Params(amount, <<>>, <<>>, <<>>, FALSE)) :
            amount \in Amounts}
Digests == {"digest-1"}

InitChat ==
  /\ Constructed
  /\ lim = [mut |-> 0, put |-> 0, conn |-> 0, clear |-> 0, ops |-> 0,
            elapsed |-> 0, step |-> Step, kinds |-> {}]
  /\ ex = Loaded(TRUE)
  /\ gw = Idle
  /\ mounted = TRUE
  /\ api = NoRequest
  /\ \E account \in {"A", NoAccount} :
       \E contacts \in {<<>>, <<[name |-> Ali, address |-> <<"0", "x", "A", "B">>]>>} :
         ch = Mounted(account, IF account = NoAccount THEN <<>> ELSE contacts)

NextChat ==
  \/ \E aiData \in Responses : handleAIResponse(aiData)
  \/ \E name \in ContactNames : \E address \in ContactAddresses :
       handleAddContact(name, address)
  \/ \E name \in ContactNames : handleDeleteContact(name)
  \/ SyncEffects
  \/ \E funded \in BOOLEAN : \E encoded \in BOOLEAN :
       handleBatchTransferTransaction(funded, encoded)
  \/ \E digest \in Digests : onSuccess(digest)
  \/ onError
  \/ ClearIntentTimer

SpecChat == InitChat /\ [][NextChat]_vars

\* The chat mounted for a connected account: nothing loaded yet, every effect
\* due, the address book as an earlier session left it.
AliContact == [name |-> Ali, address |-> <<"0", "x", "A", "B">>]
BobContact == [name |-> <<"B", "o", "b">>, address |-> <<"0", "x", "C">>]
ContactLists ==
  {<<>>, <<AliContact>>, <<BobContact>>, <<AliContact, BobContact>>,
   <<BobContact, AliContact>>}
InitBook ==
  /\ Constructed
  /\ lim = [mut |-> 0, put |-> 0, conn |-> 0, clear |-> 0, ops |-> 0,
            elapsed |-> 0, step |-> Step, kinds |-> {}]
  /\ ex = Loaded(TRUE)
  /\ gw = Idle
  /\ mounted = TRUE
  /\ api = NoRequest
  /\ \E book \in {NoBook} \cup {stringify(contacts) : contacts \in ContactLists} :
       ch = [Mounted("A", <<>>) EXCEPT !.book = book, !.due = {"load", "save"}]

NextBook ==
  \/ SyncEffects
  \/ \E contacts \in ContactLists : \E blobId \in BOOLEAN : MemoryLoaded(contacts, blobId)
  \/ Committed
  \/ \E name \in {Ali, BobContact.name} : \E address \in {AliContact.address, BobContact.address} :
       handleAddContact(name, address)
  \/ \E name \in {Ali, BobContact.name} : handleDeleteContact(name)

SpecBook == InitBook /\ [][NextBook]_vars

\* React runs every effect it has scheduled.
SpecBookFair == InitBook /\ [][NextBook]_vars /\ WF_vars(SyncEffects)

\* ========================================================= specifications
Init ==
  /\ Constructed
  /\ lim = [mut |-> MaxMut, put |-> MaxPut, conn |-> MaxConnect, clear |-> MaxClear,
            ops |-> MaxOps,
            elapsed |-> MaxElapsed, step |-> Step, kinds |-> Kinds]
  /\ ex = Loaded(TRUE)
  /\ gw = Idle
  /\ mounted = TRUE
  /\ api = NoRequest
  /\ ch = Rendered

InitSched ==
  /\ Constructed
  /\ lim = [mut |-> MaxMutSched, put |-> MaxPutSched, conn |-> 1, clear |-> 0,
            ops |-> MaxMutSched + 1,
            elapsed |-> MaxElapsedSched, step |-> StepSched, kinds |-> {"chat"}]
  /\ ex = Loaded(TRUE)
  /\ gw = Idle
  /\ mounted = TRUE
  /\ api = NoRequest
  /\ ch = Rendered

InitLoad ==
  /\ Constructed
  /\ lim = [mut |-> 1, put |-> 1, conn |-> MaxConnectLoad, clear |-> 0,
            ops |-> MaxConnectLoad + 1,
            elapsed |-> MaxElapsedLoad, step |-> Step, kinds |-> {"chat"}]
  /\ ex = Loaded(TRUE)
  /\ gw = Idle
  /\ mounted = TRUE
  /\ api = NoRequest
  /\ ch = Rendered

\* The new identity "B" has connected and appended two chat messages; the two
\* fast-path commits have failed.
TwoFailed ==
  /\ now = StartTime + FAST_PATH_DELAY
  /\ currentAccount = "B"
  /\ memory = [createEmptyMemory("B") EXCEPT !.chatHistory = <<1, 2>>,
                                             !.lastUpdated = StartTime]
  /\ isLoading = FALSE
  /\ isSaving = FALSE
  /\ pendingChanges = FALSE
  /\ saveTimeout = NoTimer
  /\ fastTimers = {}
  /\ consecutiveFailures = 2
  /\ backoffUntil = 0
  /\ lastErrorToastTime = 0
  /\ lastErrorToastId = 0
  /\ uploads = {}
  /\ downloads = {}
  /\ localStorage = [a \in Accounts |-> IF a = "A" THEN 1 ELSE 0]
  /\ walrus = <<EarlierSession>>
  /\ nMut = 2
  /\ nPut = 2
  /\ nConn = 1
  /\ nClear = 0
  /\ lastPut # Null
  /\ lastPut.blobId = 0
  /\ lastPut.backoff = 0
  /\ lastLoad = [id |-> 1, acct |-> "B", cached |-> 0, fetched |-> Null]
  /\ errorToast = Null

InitReset ==
  /\ lastPut = [id |-> 2, acct |-> "B", manual |-> FALSE,
                at |-> StartTime + FAST_PATH_DELAY, blobId |-> 0,
                lastUpdated |-> StartTime + FAST_PATH_DELAY, backoff |-> 0,
                mut |-> 2, conn |-> 1]
  /\ TwoFailed
  /\ lim = [mut |-> MaxMutReset, put |-> MaxPutReset, conn |-> 1, clear |-> 0,
            ops |-> MaxMutReset + 1,
            elapsed |-> MaxElapsedReset, step |-> Step, kinds |-> {"chat"}]
  /\ ex = Loaded(TRUE)
  /\ gw = Idle
  /\ mounted = TRUE
  /\ api = NoRequest
  /\ ch = Rendered

InitGateway ==
  /\ Constructed
  /\ lim = [mut |-> 0, put |-> 0, conn |-> 0, clear |-> 0, ops |-> 0,
            elapsed |-> 0, step |-> Step, kinds |-> {}]
  /\ ex = Loaded(TRUE)
  /\ gw = Idle
  /\ mounted = TRUE
  /\ api = NoRequest
  /\ ch = Rendered

InitExtract ==
  /\ Constructed
  /\ lim = [mut |-> 0, put |-> 0, conn |-> 0, clear |-> 0, ops |-> 0,
            elapsed |-> 0, step |-> Step, kinds |-> {}]
  /\ \E apiKey \in BOOLEAN : ex = Loaded(apiKey)
  /\ gw = Idle
  /\ mounted = TRUE
  /\ api = NoRequest
  /\ ch = Rendered

NextSched ==
  \/ \E a \in Accounts : Connect(a)
  \/ \E d \in downloads : \E found \in BOOLEAN : LoadComplete(d, found)
  \/ \E kind \in lim.kinds \ {"summary"} : MutateInUpdater(kind)
  \/ DebounceElapse
  \/ \E t \in fastTimers : FastPathElapse(t)
  \/ \E p \in uploads : UploadSucceeds(p)
  \/ \E p \in uploads : UploadFails(p)
  \/ Advance

Next ==
  \/ NextSched
  \/ Disconnect
  \/ updateAiSummary
  \/ clearMemory
  \/ saveToWalrus

NextLoad ==
  \/ NextSched
  \/ Disconnect

\* The hook in a component that may unmount: calls from outside are made
\* while it is mounted, timers and requests run on after that.
InitTeardown ==
  /\ Constructed
  /\ lim = [mut |-> MaxMut, put |-> MaxPut, conn |-> 1, clear |-> 0, ops |-> MaxOps,
            elapsed |-> MaxElapsed, step |-> Step, kinds |-> {"chat", "activity"}]
  /\ ex = Loaded(TRUE)
  /\ gw = Idle
  /\ mounted = TRUE
  /\ api = NoRequest
  /\ ch = Rendered

NextTeardown ==
  \/ mounted /\ \E a \in Accounts : Connect(a)
  \/ \E d \in downloads : \E found \in BOOLEAN : LoadComplete(d, found)
  \/ mounted /\ \E kind \in lim.kinds : MutateInUpdater(kind)
  \/ Unmount
  \/ DebounceElapse
  \/ \E t \in fastTimers : FastPathElapse(t)
  \/ \E p \in uploads : UploadSucceeds(p)
  \/ \E p \in uploads : UploadFails(p)
  \/ Advance

NextReset ==
  \/ \E kind \in lim.kinds \ {"summary"} : MutateInUpdater(kind)
  \/ DebounceElapse
  \/ \E t \in fastTimers : FastPathElapse(t)
  \/ saveToWalrus
  \/ \E p \in uploads : UploadSucceeds(p)
  \/ \E p \in uploads : UploadFails(p)
  \/ Advance

\* The returning identity "A" has connected and its aggregate of the earlier
\* session has been loaded.
Returned ==
  /\ now = StartTime
  /\ currentAccount = "A"
  /\ memory = [EarlierSession EXCEPT !.blobId = 1]
  /\ isLoading = FALSE
  /\ isSaving = FALSE
  /\ pendingChanges = FALSE
  /\ saveTimeout = NoTimer
  /\ fastTimers = {}
  /\ consecutiveFailures = 0
  /\ backoffUntil = 0
  /\ lastErrorToastTime = 0
  /\ lastErrorToastId = 0
  /\ uploads = {}
  /\ downloads = {}
  /\ localStorage = [a \in Accounts |-> IF a = "A" THEN 1 ELSE 0]
  /\ walrus = <<EarlierSession>>
  /\ nMut = 0
  /\ nPut = 0
  /\ nConn = 1
  /\ nClear = 0
  /\ lastPut = Null
  /\ lastLoad = [id |-> 1, acct |-> "A", cached |-> 1, fetched |-> EarlierSession]
  /\ errorToast = Null

\* One identity, loaded: mutations, a clear, manual saves and the commits.
InitClear ==
  /\ Returned
  /\ lim = [mut |-> MaxMut, put |-> MaxPutClear, conn |-> 1, clear |-> MaxClear,
            ops |-> MaxOps,
            elapsed |-> MaxElapsed, step |-> Step, kinds |-> {"chat"}]
  /\ ex = Loaded(TRUE)
  /\ gw = Idle
  /\ mounted = TRUE
  /\ api = NoRequest
  /\ ch = Rendered

NextClear ==
  \/ \E kind \in lim.kinds \ {"summary"} : MutateInUpdater(kind)
  \/ updateAiSummary
  \/ clearMemory
  \/ saveToWalrus
  \/ DebounceElapse
  \/ \E t \in fastTimers : FastPathElapse(t)
  \/ \E p \in uploads : UploadSucceeds(p)
  \/ \E p \in uploads : UploadFails(p)
  \/ Advance

SpecClear == InitClear /\ [][NextClear]_vars

Spec == Init /\ [][Next]_vars

SpecReset == InitReset /\ [][NextReset]_vars

SpecTeardown == InitTeardown /\ [][NextTeardown]_vars

SpecLoad == InitLoad /\ [][NextLoad]_vars

\* A fetch of the gateway settles (it is aborted after DOWNLOAD_TIMEOUT at the
\* latest), so a run of loadMemory that awaits one goes on.
LoadSettles == WF_vars(\E d \in downloads : \E found \in BOOLEAN : LoadComplete(d, found))
SpecLoadFair == InitLoad /\ [][NextLoad]_vars /\ LoadSettles

SpecSched == InitSched /\ [][NextSched]_vars

SpecGateway == InitGateway /\ [][NextGateway]_vars

InitAnalyze == InitExtract
SpecAnalyze == InitAnalyze /\ [][NextAnalyze]_vars
SpecExtract == InitExtract /\ [][NextExtract]_vars

\* ================================================================= claims
\* Steps of the manager, recognised from the state change they make.
AutoPutsBy(a) == {p \in uploads : ~p.manual /\ p.acct = a}
Started == uploads' \ uploads
Resolved == uploads \ uploads'
DebounceFires == saveTimeout # NoTimer /\ saveTimeout' = NoTimer
MutationCalled == nMut' = nMut + 1
SameContent(m1, m2) ==
  /\ m1 # Null
  /\ m2 # Null
  /\ [m1 EXCEPT !.lastUpdated = 0] = [m2 EXCEPT !.lastUpdated = 0]
Holds(m, id) ==
  /\ m # Null
  /\ \/ \E i \in DOMAIN m.chatHistory : m.chatHistory[i] = id
     \/ \E i \in DOMAIN m.activityLogs : m.activityLogs[i] = id
     \/ m.aiSummary = id
     \/ m.contacts = id
HoldsEntry(m, id) ==
  /\ m # Null
  /\ \/ \E i \in DOMAIN m.chatHistory : m.chatHistory[i] = id
     \/ \E i \in DOMAIN m.activityLogs : m.activityLogs[i] = id

\* C1: for one identity at most one commit started by the debounce or the
\* fast-path timer is in flight at any time.
C1_SingleFlight == \A a \in Accounts : Cardinality(AutoPutsBy(a)) <= 1

\* C2: the snapshot a debounce timer hands to put when it elapses is the
\* in-memory aggregate of that moment, the arming mutation included.
C2_SnapshotAtElapse ==
  [][DebounceFires => \A p \in Started : SameContent(p.snap, memory)]_vars

\* C3: the extractor never raises, and every failure class ends the call
\* with an intent of type CHAT, action_type NONE and params {}: whenever it
\* returns after a failure (no API key, rate limit, another generative fault,
\* short output, output that does not parse after repair, schema rejection)
\* the intent is such a one, and once the retry that follows model-not-found
\* has been issued, the next answer of the backend ends the call.
C3_EveryFailureIsChatNone ==
  [][/\ ex'.pc # "raised"
     /\ (ex'.pc = "returned" /\ ex'.outcome.class # "ok")
          => /\ Get(ex'.outcome.intent, "type") = JStr("CHAT")
             /\ Get(Get(ex'.outcome.intent, "data"), "action_type") = JStr("NONE")
             /\ Get(Get(ex'.outcome.intent, "data"), "params") = JObj(<<>>)
     /\ (ex.pc = "generating" /\ ex.calls >= 2) => ex'.pc = "returned"]_vars

\* C4: once three consecutive commits have failed, no debounce or fast-path
\* timer that elapses within the following 30 s starts a put, mutations made
\* in that window are still applied, and a timer that elapses after the window
\* has ended starts exactly one put.
ThreeFailed ==
  /\ consecutiveFailures >= MAX_CONSECUTIVE_FAILURES
  /\ lastPut # Null
  /\ ~lastPut.manual
  /\ lastPut.blobId = 0
InWindow == ThreeFailed /\ now < lastPut.at + BACKOFF_DURATION_MS
AfterWindow == ThreeFailed /\ ~(now < lastPut.at + BACKOFF_DURATION_MS)
FastPathFires == fastTimers' # fastTimers /\ fastTimers' \subseteq fastTimers
TimerFires == DebounceFires \/ FastPathFires
C4_NoPutInWindow == (InWindow /\ TimerFires) => Started = {}
C4_MutationApplied == (InWindow /\ MutationCalled /\ memory # Null) => Holds(memory', nMut')
C4_PutAfterWindow ==
  (AfterWindow /\ FastPathFires) => Cardinality(Started) = 1
C4_Backoff == [][C4_NoPutInWindow /\ C4_MutationApplied /\ C4_PutAfterWindow]_vars

\* C5: a burst of mutations on an aggregate that has a pointer ends in exactly
\* one commit attempt: the one debounce timer left elapses and starts one put.
C5_OneCommitPerBurst ==
  [][(/\ DebounceFires
      /\ saveTimeout.acct # NoAccount
      /\ saveTimeout.mem # Null
      /\ saveTimeout.mem.blobId # 0
      /\ ~(now < backoffUntil))
     => Cardinality(Started) = 1]_vars

\* C6: one call of the extractor issues at most two generative calls: the
\* first and, after model-not-found, one retry with the other variant.
C6_AtMostTwoCalls == ex.calls <= 2

\* C7: a commit of a previous identity that resolves after the identity has
\* changed modifies neither the current identity's aggregate nor its failure
\* counter and backoff deadline.
C7_StaleCommitIsolated ==
  [][\A p \in Resolved :
       (~p.manual /\ currentAccount # NoAccount /\ p.acct # currentAccount)
         => /\ consecutiveFailures' = consecutiveFailures
            /\ backoffUntil' = backoffUntil
            /\ (memory # Null /\ memory.walletAddress = currentAccount)
                  => memory' = memory]_vars

\* C8: a connected identity with an aggregate and no load in progress holds
\* its own aggregate.
C8_AggregateOfIdentity ==
  (currentAccount # NoAccount /\ memory # Null /\ ~isLoading)
    => memory.walletAddress = currentAccount

\* C9: a successful commit for identity I returning pointer P writes P to
\* I's cache entry and to the pointer of I's in-memory aggregate and stamps
\* that aggregate with the commit's timestamp; nothing else writes the cache.
C9_Succeeded == lastPut' # lastPut /\ lastPut'.blobId # 0
C10_MutationKept ==
  [][/\ (MutationCalled /\ currentAccount # NoAccount) => Holds(memory', nMut')
     /\ \A id \in 1..nMut :
          (HoldsEntry(memory, id) /\ currentAccount' = currentAccount /\ nClear' = nClear)
            => HoldsEntry(memory', id)]_vars

\* C11: the load that a connect of identity I starts adopts the fetched
\* aggregate, its pointer set to the cached pointer, exactly when the cache
\* has an entry for I, the fetch yields an aggregate and that aggregate's
\* walletAddress is I; in every other case it adopts an empty aggregate of I
\* without pointer.
C11_Adopts ==
  /\ lastLoad.cached # 0
  /\ lastLoad.fetched # Null
  /\ lastLoad.fetched.walletAddress = lastLoad.acct
C11_Adoption ==
  [][lastLoad' # lastLoad =>
       IF C11_Adopts'
         THEN memory' = [lastLoad'.fetched EXCEPT !.blobId = lastLoad'.cached]
         ELSE memory' = [walletAddress |-> lastLoad'.acct, chatHistory |-> <<>>,
                         aiSummary |-> 0, activityLogs |-> <<>>, contacts |-> 0,
                         lastUpdated |-> now', blobId |-> 0]]_vars
C11_Witness ==
  /\ lastLoad # Null
  /\ lastLoad.cached # 0
  /\ lastLoad.fetched # Null
  /\ lastLoad.fetched.walletAddress # lastLoad.acct
  /\ memory = [walletAddress |-> lastLoad.acct, chatHistory |-> <<>>,
               aiSummary |-> 0, activityLogs |-> <<>>, contacts |-> 0,
               lastUpdated |-> now, blobId |-> 0]

\* C12: every mutation operation (chat message, activity log, summary,
\* contacts) called on an aggregate without pointer arms a commit
\* FAST_PATH_DELAY ms later and leaves the debounce timer as it was.
C12_FastPath ==
  [][(MutationCalled /\ memory # Null /\ memory.blobId = 0
        /\ currentAccount # NoAccount)
       => /\ \E t \in fastTimers' \ fastTimers : t.due = now + FAST_PATH_DELAY
          /\ saveTimeout' = saveTimeout]_vars

\* C13: a put that returns a pointer, started by a timer or by a manual save,
\* leaves the failure counter at 0 and no backoff deadline; a timer that
\* elapses when the put resolved last had succeeded starts a put, whether or
\* not that success found a backoff window open.
C13_Reset ==
  (Resolved # {} /\ lastPut'.blobId # 0)
    => consecutiveFailures' = 0 /\ backoffUntil' = 0
C13_TimerAllowed ==
  (/\ lastPut # Null
   /\ lastPut.blobId # 0
   /\ \/ FastPathFires
      \/ /\ DebounceFires
         /\ pendingChanges
         /\ saveTimeout.mem # Null
         /\ saveTimeout.acct # NoAccount)
    => Cardinality(Started) = 1
C13_SuccessResets == [][C13_Reset /\ C13_TimerAllowed]_vars
C13_Witness ==
  /\ lastPut # Null
  /\ lastPut.blobId # 0
  /\ now < lastPut.backoff
  /\ consecutiveFailures = 0
  /\ backoffUntil = 0
  /\ \E p \in uploads : ~p.manual /\ p.id > lastPut.id /\ p.now >= lastPut.at

\* C14: every put that ends without a pointer, whether a timer or a manual
\* save started it, raises the failure counter by exactly one.
C14_FailureCounted ==
  [][(Resolved # {} /\ lastPut'.blobId = 0)
       => consecutiveFailures' = consecutiveFailures + 1]_vars

\* C15: a put started by the debounce timer or by a fast-path timer that ends
\* without a pointer shows no error notification and leaves the notification
\* bookkeeping as it was, whatever the failure count, the backoff deadline
\* and the time of the last notification.
C15_BackgroundSilent ==
  [][(Resolved # {} /\ lastPut'.blobId = 0 /\ ~lastPut'.manual)
       => /\ errorToast' = errorToast
          /\ lastErrorToastId' = lastErrorToastId
          /\ lastErrorToastTime' = lastErrorToastTime]_vars
C15_Witness ==
  /\ lastPut # Null
  /\ ~lastPut.manual
  /\ lastPut.blobId = 0
  /\ lastPut.at = now
  /\ ToastShown
  /\ errorToast = Null

\* C16: of the error notifications that failing manual saves of one identity
\* produce, each is shown at least TOAST_THROTTLE_MS after the one before it,
\* and the one before it has been handed to toast.dismiss.
C16_Throttled ==
  [][(errorToast' # errorToast /\ errorToast # Null
        /\ errorToast'.acct = errorToast.acct)
       => /\ errorToast'.at - errorToast.at >= TOAST_THROTTLE_MS
          /\ errorToast'.dismissed = errorToast.id]_vars

\* C17: the puts of one identity that are in flight together are either all
\* started by a manual save or all started by a timer.
C17_Serialized ==
  \A p \in uploads : \A q \in uploads :
    p.acct = q.acct => p.manual = q.manual

\* C18: uploadToWalrus always returns and never throws; it returns the
\* pointer of the response when the publisher answered with success and a
\* newlyCreated or alreadyCertified blob id, and null after a timeout, a
\* network error, a non-success status and a success without blob id.
C18_Stored ==
  /\ gw.cause = "response"
  /\ gw.upstream.kind = "response"
  /\ Ok(gw.upstream)
  /\ \E P \in Pointers : gw.upstream.body \in {NewlyStored(P), AlreadyPresent(P)}
C18_PutNeverRaises ==
  (gw.pc = "done" /\ gw.op = "put")
    => /\ ~gw.outcome.rejected
       /\ IF C18_Stored
            THEN \E P \in Pointers :
                   /\ gw.upstream.body \in {NewlyStored(P), AlreadyPresent(P)}
                   /\ gw.outcome.v = JStr(P)
            ELSE gw.outcome.v = Null
C18_Witness ==
  /\ gw.pc = "done"
  /\ gw.op = "put"
  /\ gw.cause = "abort"
  /\ gw.elapsed >= UPLOAD_TIMEOUT
  /\ gw.outcome = Fulfilled(Null)

\* C19: downloadFromWalrus always returns and never throws; after a 404, any
\* other non-success status, a network error, a timeout or an unusable body
\* it returns null, and loadMemory then sets a fresh empty aggregate of the
\* identity.
C19_Fetched ==
  /\ gw.cause = "response"
  /\ gw.upstream.kind = "response"
  /\ Ok(gw.upstream)
  /\ gw.upstream.body \in {Stringify(m) : m \in GatewayAggregates}
C19_GetNeverRaises ==
  (gw.pc = "done" /\ gw.op = "get")
    => /\ ~gw.outcome.rejected
       /\ IF C19_Fetched
            THEN gw.outcome.v = gw.upstream.body
            ELSE /\ gw.outcome.v = Null
                 /\ \A a \in Accounts :
                      LoadedMemory(gw.outcome.v, a, gw.arg)
                        = [walletAddress |-> a, chatHistory |-> <<>>, aiSummary |-> 0,
                           activityLogs |-> <<>>, contacts |-> 0,
                           lastUpdated |-> now, blobId |-> 0]
C19_Witness ==
  /\ gw.pc = "done"
  /\ gw.op = "get"
  /\ gw.cause = "response"
  /\ gw.upstream.kind = "response"
  /\ gw.upstream.status = 404
  /\ gw.outcome = Fulfilled(Null)

\* C20: when a commit for identity I has stored aggregate M under pointer P,
\* a load of I that starts after it, with no mutation call since the commit,
\* and whose fetch of P yields an aggregate, sets an aggregate equal to M in
\* walletAddress, chatHistory, activityLogs, contacts and aiSummary.
C20_Members == {"walletAddress", "chatHistory", "activityLogs", "contacts", "aiSummary"}
C20_RoundTrip ==
  [][(/\ lastLoad' # lastLoad
      /\ lastPut # Null
      /\ lastPut.blobId # 0
      /\ lastLoad'.acct = lastPut.acct
      /\ lastLoad'.id > lastPut.conn
      /\ nMut = lastPut.mut
      /\ lastLoad'.cached = lastPut.blobId
      /\ lastLoad'.fetched # Null)
       => /\ lastLoad'.fetched = walrus[lastPut.blobId]
          /\ \A f \in C20_Members : memory'[f] = walrus[lastPut.blobId][f]]_vars

\* C21: the snapshot committed last is a function of the sequence of mutations
\* alone, the aggregate that the sequence produces.  Once the same chat message
\* mutation has been applied twice and every timer and put has run, the last
\* snapshot committed by a timer equals the aggregate in memory in every
\* member but lastUpdated and the pointer, whether one commit ran or one after
\* each mutation.
C21_Settled ==
  /\ saveTimeout = NoTimer
  /\ fastTimers = {}
  /\ uploads = {}
  /\ downloads = {}
C21_TwiceApplied ==
  /\ nMut = 2
  /\ nConn = 1
  /\ nClear = 0
  /\ memory # Null
  /\ Len(memory.chatHistory) >= 2
  /\ memory.chatHistory[Len(memory.chatHistory) - 1] = 1
  /\ memory.chatHistory[Len(memory.chatHistory)] = 2
C24_Params(payload) == GetOptional(GetOptional(payload, "data"), "params")
C24_Carries ==
  /\ ex.pc = "returned"
  /\ C24_Params(ex.parsedData).k = "object"
  /\ "to_address" \in DOMAIN C24_Params(ex.parsedData).v
C24_LegacyRenamed ==
  (C24_Carries /\ ex.schemaInput # JUndefined)
    => /\ Get(C24_Params(ex.schemaInput), "recipient")
            = Get(C24_Params(ex.parsedData), "to_address")
       /\ "to_address" \notin DOMAIN C24_Params(ex.schemaInput).v

\* C25: every intent the extractor returns, on whatever path and for whatever
\* generated output, has a type in {CHAT, TRANSACTION}, an action_type among
\* the six declared values, a string summary and params that is an object
\* (present and not null).
C25_WellFormed(intent) ==
  /\ Get(intent, "type").k = "string"
  /\ Get(intent, "type").v \in {"CHAT", "TRANSACTION"}
  /\ Get(Get(intent, "data"), "action_type").k = "string"
  /\ Get(Get(intent, "data"), "action_type").v
       \in {"TRANSFER", "BATCH_TRANSFER", "SWAP", "STAKE", "DEFI_SUPPLY", "NONE"}
  /\ Get(Get(intent, "data"), "summary").k = "string"
  /\ Get(Get(intent, "data"), "params").k = "object"
C25_ReturnedIntentValid == ex.pc = "returned" => C25_WellFormed(ex.outcome.intent)
C25_Witness ==
  /\ ex.pc = "returned"
  /\ ex.text = RawNullParams
  /\ ex.outcome.class = "ok"
  /\ Get(Get(ex.parsedData, "data"), "params") = JNull
  /\ Get(Get(ex.outcome.intent, "data"), "params") = JObj(<<>>)

\* C26: the analyze route always answers with a well-formed intent body.  A
\* response has status 200 or 500; what the extractor returns is sent as it
\* is with status 200; status 500 is sent only when the handling of the
\* request itself throws (before the extractor is called), with a CHAT/NONE
\* body whose params is {}; and a request whose extractor call has retried
\* after model-not-found is answered on the next answer of the backend.
C26_Answered == api.pc # "responded" /\ api'.pc = "responded"
C26_ChatNone(body) ==
  /\ Get(body, "type") = JStr("CHAT")
  /\ Get(Get(body, "data"), "action_type") = JStr("NONE")
  /\ Get(Get(body, "data"), "summary").k = "string"
  /\ Get(Get(body, "data"), "params") = JObj(<<>>)
C26_Handled ==
  (C26_Answered /\ api.pc = "calling")
    => /\ api'.response = Response(200, ex.outcome.intent)
       /\ Get(api'.response.body, "type").v \in ResponseTypes
       /\ Get(Get(api'.response.body, "data"), "action_type").v \in ActionTypes
       /\ Get(Get(api'.response.body, "data"), "summary").k = "string"
       /\ Get(Get(api'.response.body, "data"), "params").k = "object"
C26_Faulted ==
  (C26_Answered /\ api.pc = "idle")
    => /\ api'.response.status = 500
       /\ C26_ChatNone(api'.response.body)
       /\ ex' = ex
C26_Retried ==
  (api.pc = "calling" /\ ex.pc = "generating" /\ ex.calls >= 2) => ex'.pc = "returned"
C26_AlwaysAnswers == [][C26_Handled /\ C26_Faulted /\ C26_Retried]_vars
C26_StatusMapping == [][C26_Handled /\ C26_Faulted]_vars

\* C28 as stated: once the commit that ended last has failed, no timer starts
\* a further put unless a mutation has been called since that failure.
C28_LastFailed == lastPut # Null /\ lastPut.blobId = 0 /\ lastPut.conn = nConn
C28_TimerPut == \E p \in Started : ~p.manual
C28_Armed ==
  \/ saveTimeout' # NoTimer /\ saveTimeout' # saveTimeout
  \/ ~(fastTimers' \subseteq fastTimers)
C28_PutOnlyByTimerOrManual ==
  \A p \in Started : p.manual \/ (TimerFires /\ ~(now < backoffUntil))
C28_EndArmsNothing == Resolved # {} => (Started = {} /\ ~C28_Armed)
C28_SkipArmsNothing ==
  (TimerFires /\ now < backoffUntil) => (Started = {} /\ ~C28_Armed)
C28_ArmedByMutation == C28_Armed => (MutationCalled \/ nClear' = nClear + 1)
C29_NoTimerLeft == ~mounted => (saveTimeout = NoTimer /\ fastTimers = {})
C29_NoPutStarted == ~mounted => Started = {}
C29_Teardown == [][C29_NoPutStarted]_vars

\* C30: every connect of an identity reaches READY, the loading flag false and
\* a non-null aggregate of that identity in memory, unless the identity changes
\* first, whatever the cache lookup and the fetch yield; and the loading flag
\* never stays set.
C30_Ready(a) ==
  /\ currentAccount = a
  /\ ~isLoading
  /\ memory # Null
  /\ memory.walletAddress = a
C30_EventuallyReady ==
  /\ \A a \in Accounts :
       (currentAccount = a /\ isLoading) ~> (C30_Ready(a) \/ currentAccount # a)
  /\ isLoading ~> ~isLoading
C30_Witness ==
  /\ lastLoad # Null
  /\ lastLoad.cached # 0
  /\ lastLoad.fetched = Null
  /\ lastLoad.id = nConn
  /\ C30_Ready(lastLoad.acct)
  /\ memory.chatHistory = <<>>

\* ---------------------------------------------------------------- C22
\* C22: every call of resolveRecipient made by the chat returns, for a token
\* that starts with 0x, the token as address with the name of a contact whose
\* address equals the token ignoring case (null when there is none); for any
\* other token the address and name of a contact whose name equals the token
\* ignoring case; and address "" with name null when no contact's name does.
C22_EqualsIgnoringCase(a, b) ==
  /\ Len(a) = Len(b)
  /\ \A i \in 1..Len(a) :
       \/ a[i] = b[i]
       \/ \E j \in 1..26 : {a[i], b[i]} = {Upper[j], Lower[j]}
C22_AsSpecified(token, contacts, result) ==
  IF Len(token) >= 2 /\ token[1] = "0" /\ token[2] = "x"
    THEN /\ result.address = token
         /\ IF \E i \in DOMAIN contacts : C22_EqualsIgnoringCase(contacts[i].address, token)
              THEN \E i \in DOMAIN contacts :
                     /\ C22_EqualsIgnoringCase(contacts[i].address, token)
                     /\ result.name = JStr(contacts[i].name)
              ELSE result.name = JNull
  ELSE IF \E i \in DOMAIN contacts : C22_EqualsIgnoringCase(contacts[i].name, token)
    THEN \E i \in DOMAIN contacts :
           /\ C22_EqualsIgnoringCase(contacts[i].name, token)
           /\ result = [address |-> contacts[i].address, name |-> JStr(contacts[i].name)]
  ELSE result = [address |-> <<>>, name |-> JNull]
C22_Resolves ==
  \A i \in DOMAIN ch.lookups :
    C22_AsSpecified(ch.lookups[i].token, ch.lookups[i].contacts, ch.lookups[i].result)
\* A name written in another case than the contact's is resolved to the
\* contact, next to a name that no contact has.
C22_Witness ==
  /\ \E i \in DOMAIN ch.lookups :
       /\ ch.lookups[i].token = <<"a", "l", "i">>
       /\ ch.lookups[i].result = [address |-> <<"0", "x", "A", "B">>, name |-> JStr(Ali)]
  /\ \E i \in DOMAIN ch.lookups :
       /\ ch.lookups[i].token = <<"0", "x", "1">>
       /\ ch.lookups[i].result = [address |-> <<"0", "x", "1">>, name |-> JNull]

\* ---------------------------------------------------------------- C23
\* C23: when handleAIResponse handles a TRANSFER or BATCH_TRANSFER intent and
\* a recipient it looks up is unresolved (address ""), the call builds and
\* dispatches no transaction, leaves the page's intent cleared, and its last
\* chat message names every unresolved token.
C23_UnresolvedLookups(c) ==
  {i \in DOMAIN c.lookups : c.lookups[i].result.address = <<>>}
C23_HardStop ==
    (/\ ch'.last.type = "TRANSACTION"
     /\ ch'.last.action_type \in {"TRANSFER", "BATCH_TRANSFER"}
     /\ C23_UnresolvedLookups(ch') # {}
     /\ handleAIResponse(ch'.last))
    => /\ ch'.built = ch.built
       /\ ch'.pending = NoDispatch
       /\ ch'.intent = Cleared
       /\ Len(ch'.messages) = Len(ch.messages) + 2
       /\ \A i \in C23_UnresolvedLookups(ch') :
            \E k \in DOMAIN ch'.messages[Len(ch'.messages)].names :
              ch'.messages[Len(ch'.messages)].names[k] = ch'.lookups[i].token
C23_Stops == [][C23_HardStop]_vars
\* A batch with one recipient that resolves and one that does not has been
\* stopped after an earlier intent had been handed on.
C23_Witness ==
  /\ ch.last.type = "TRANSACTION"
  /\ ch.last.action_type = "BATCH_TRANSFER"
  /\ C23_UnresolvedLookups(ch) # {}
  /\ C23_UnresolvedLookups(ch) # DOMAIN ch.lookups
  /\ ch.messages[Len(ch.messages)].text = "invalid-recipients"
  /\ ch.intent = Cleared
  /\ ch.calls >= 2

\* ---------------------------------------------------------------- C27
\* C27: every step in which the wallet answers a dispatched TRANSFER,
\* BATCH_TRANSFER or DEFI_SUPPLY request appends one activity log of that
\* type: status success with the transaction digest when it was executed,
\* status failed with an empty digest when it was not.
C27_Outcome == ch.pending # NoDispatch /\ ch'.pending = NoDispatch
C27_Logged ==
  /\ Len(ch'.logs) = Len(ch.logs) + 1
  /\ ch'.logs[Len(ch'.logs)].type = ch.pending.action_type
  /\ \/ /\ \E digest \in Digests : onSuccess(digest)
        /\ ch'.logs[Len(ch'.logs)].status = "success"
        /\ ch'.logs[Len(ch'.logs)].digest = ch'.digest
     \/ /\ onError
        /\ ch'.logs[Len(ch'.logs)].status = "failed"
        /\ ch'.logs[Len(ch'.logs)].digest = ""
C27_OutcomeRecorded == C27_Outcome => C27_Logged
C27_AlwaysRecorded == [][C27_OutcomeRecorded]_vars
\* The part that holds: the outcomes of the transfers the chat dispatches.
C27_ChatTransferRecorded ==
  [][(C27_Outcome /\ ch.pending.origin = "chat" /\ ch.pending.action_type = "TRANSFER")
       => C27_Logged]_vars

\* ---------------------------------------------------------------- C31
\* C31: in every step taken on a loaded aggregate that is neither a clear nor
\* an identity change, chatHistory and activityLogs keep their entries in
\* order: the step of an appendChatMessage (appendActivityLog) call appends
\* exactly the new entry to chatHistory (activityLogs), and every other step,
\* the completion of a commit included, leaves the two lists as they were.
C31_Ready == memory # Null /\ ~isLoading /\ currentAccount # NoAccount
C31_NoClearNoChange == nConn' = nConn /\ nClear' = nClear
C31_Kept ==
  /\ memory' # Null
  /\ memory'.chatHistory =
       IF MutateInUpdater("chat") THEN Append(memory.chatHistory, nMut + 1)
       ELSE memory.chatHistory
  /\ memory'.activityLogs =
       IF MutateInUpdater("activity") THEN Append(memory.activityLogs, nMut + 1)
       ELSE memory.activityLogs
C31_StepInOrder == (C31_Ready /\ C31_NoClearNoChange) => C31_Kept
C31_InvocationOrder == [][C31_StepInOrder]_vars
\* The part that holds: every step but the end of a run of loadMemory.
C31_OrderButForLoads ==
  [][(C31_Ready /\ C31_NoClearNoChange /\ downloads' = downloads) => C31_Kept]_vars
\* A weaker statement: the entry appended last, when it is the first of the
\* connected identity's chatHistory, is still there after such a step.
C31_EntryKept ==
  [][(C31_Ready /\ C31_NoClearNoChange /\ memory.walletAddress = currentAccount
        /\ Len(memory.chatHistory) > 0 /\ memory.chatHistory[1] = nMut)
       => (memory' # Null /\ Len(memory'.chatHistory) > 0
             /\ memory'.chatHistory[1] = nMut)]_vars

\* ---------------------------------------------------------------- C32
\* C32: every lookup the panel makes for a dispatch (formatRecipient on the
\* panel's contacts) returns what the chat's resolveRecipient returns for the
\* same token and contacts; a token that is no address and no contact's name
\* gets address "".
C32_Agrees(l) == l.result = resolveRecipient(l.token, l.contacts)
C32_SameLookup == \A i \in DOMAIN ch.formatted : C32_Agrees(ch.formatted[i])
\* The part that holds: the two agree wherever the chat's lookup resolves.
C32_AgreesWhenResolved ==
  \A i \in DOMAIN ch.formatted :
    resolveRecipient(ch.formatted[i].token, ch.formatted[i].contacts).address # <<>>
      => C32_Agrees(ch.formatted[i])
\* A transaction whose destination is a contact's name has been dispatched.
C32_RawTokenDispatched ==
  /\ ch.pending # NoDispatch
  /\ ch.pending.origin = "panel"
  /\ \E i \in DOMAIN ch.pending.to : ch.pending.to[i] = Ali

\* ---------------------------------------------------------------- C33
\* C33: the text tryFixIncompleteJSON returns, when it is called after the
\* first parse failed: if its argument has more '{' than '}' the result is the
\* argument less one trailing comma or quote, followed by exactly the missing
\* '}' (and a quote that closes a string), with as many '{' as '}'; and in
\* every case the result has an even number of double quotes.
C33_Missing(text) == Count(text, "{") - Count(text, "}")
C33_BracesClosed ==
  (ex.retry.called /\ C33_Missing(ex.retry.text) > 0)
    => /\ Count(ex.retry.fixedText, "{") = Count(ex.retry.text, "{")
       /\ Count(ex.retry.fixedText, "}") = Count(ex.retry.text, "{")
       /\ LET text == ex.retry.text
              kept == IF text[Len(text)] \in {",", "\""} THEN Len(text) - 1 ELSE Len(text)
          IN /\ SubSeq(ex.retry.fixedText, 1, kept) = SubSeq(text, 1, kept)
             /\ \A i \in kept + 1..Len(ex.retry.fixedText) :
                  ex.retry.fixedText[i] \in {"\n", "}", "\""}
C33_QuotesEven == ex.retry.called => Count(ex.retry.fixedText, "\"") % 2 = 0
C33_Repaired == C33_BracesClosed /\ C33_QuotesEven
\* The part that holds: the quotes are even unless the text, with no brace to
\* add, already ends with a quote.
C33_QuotesEvenUnlessLast ==
  (ex.retry.called /\ Count(ex.retry.fixedText, "\"") % 2 # 0)
    => /\ C33_Missing(ex.retry.text) <= 0
       /\ ex.retry.text[Len(ex.retry.text)] = "\""
\* A text cut after a closing quote has been repaired.
C33_QuoteRemoved ==
  /\ ex.retry.called
  /\ ex.retry.text = RawCutQuote
  /\ Count(ex.retry.fixedText, "}") = 2

\* ---------------------------------------------------------------- C34
\* C34: when the generated text is empty or, trimmed, shorter than 10
\* characters, before or after sanitation, the call returns the safe fallback
\* in the language of the utterance: the first of Turkish, Spanish, French and
\* German one of whose letters with a diacritic occurs in the utterance, and
\* English when none occurs.
C34_Diacritics ==
  [Turkish |-> {"c-cedilla", "g-breve", "dotless-i", "o-umlaut", "s-cedilla", "u-umlaut",
                "C-cedilla", "G-breve", "I-dot", "O-umlaut", "S-cedilla", "U-umlaut"},
   Spanish |-> {"n-tilde", "a-acute", "e-acute", "i-acute", "o-acute", "u-acute",
                "u-umlaut", "N-tilde", "A-acute", "E-acute", "I-acute", "O-acute",
                "U-acute", "U-umlaut"},
   French |-> {"a-grave", "a-circumflex", "a-umlaut", "e-acute", "e-grave",
               "e-circumflex", "e-umlaut", "i-umlaut", "i-circumflex", "o-circumflex",
               "u-grave", "u-circumflex", "u-umlaut", "y-umlaut", "c-cedilla",
               "A-grave", "A-circumflex", "A-umlaut", "E-acute", "E-grave",
               "E-circumflex", "E-umlaut", "I-umlaut", "I-circumflex", "O-circumflex",
               "U-grave", "U-circumflex", "U-umlaut", "Y-umlaut", "C-cedilla"},
   German |-> {"a-umlaut", "o-umlaut", "u-umlaut", "eszett", "A-umlaut", "O-umlaut",
               "U-umlaut"}]
C34_Order == <<"Turkish", "Spanish", "French", "German">>
C34_Has(sets, language, userMessage) ==
  \E i \in DOMAIN userMessage : userMessage[i] \in sets[language]
C34_Language(sets, userMessage) ==
  IF \E n \in 1..4 : C34_Has(sets, C34_Order[n], userMessage)
    THEN C34_Order[Min({n \in 1..4 : C34_Has(sets, C34_Order[n], userMessage)})]
    ELSE "English"
C34_Message ==
  [Turkish |-> "Teknik bir sorun olustu ...",
   Spanish |-> "Ocurrio un problema tecnico ...",
   French |-> "Un probleme technique s est produit ...",
   German |-> "Ein technisches Problem ist aufgetreten ...",
   English |-> "A technical issue occurred ..."]
C34_TooShort(text) == text = <<>> \/ Len(Trim(text)) < 10
C34_ShortOutput ==
  /\ ex.pc = "returned"
  /\ ex.responded
  /\ C34_TooShort(ex.text) \/ C34_TooShort(cleanJsonOutput(ex.text))
C34_FallbackIn(sets) ==
  C34_ShortOutput =>
    ex.outcome.intent = ChatNone(C34_Message[C34_Language(sets, ex.userMessage)])
C34_FallbackByDiacritics == C34_FallbackIn(C34_Diacritics)
\* The part that holds: the same with the letter I counted as Turkish.
C34_FallbackByClasses ==
  C34_FallbackIn([C34_Diacritics EXCEPT !.Turkish = @ \cup {"I"}])
\* A text that is short only after sanitation has been answered in Spanish.
C34_ShortAfterCleaning ==
  /\ C34_ShortOutput
  /\ ~C34_TooShort(ex.text)
  /\ ex.outcome.intent = ChatNone(C34_Message.Spanish)

\* ---------------------------------------------------------------- C35
\* C35: while the aggregate is as clearMemory left it (no mutation since),
\* a commit of the identity that was started after the clear and succeeds
\* stores the cleared aggregate: chatHistory and activityLogs empty, no
\* contacts, no aiSummary.
C35_Empty(m) ==
  /\ m.chatHistory = <<>>
  /\ m.activityLogs = <<>>
  /\ m.contacts = 0
  /\ m.aiSummary = 0
C35_Cleared ==
  /\ nClear > 0
  /\ memory # Null
  /\ memory.walletAddress = currentAccount
  /\ C35_Empty(memory)
C35_SucceedsAfterClear(p) ==
  /\ UploadSucceeds(p)
  /\ p.acct = currentAccount
  /\ p.clears = nClear
C35_StepStoresCleared ==
  \A p \in uploads : (C35_Cleared /\ C35_SucceedsAfterClear(p)) => C35_Empty(p.snap)
C35_StoresCleared == [][C35_StepStoresCleared]_vars
\* The same for the commit of the debounce timer that clearMemory arms, and
\* for a manual save.
C35_DebouncedStoresCleared ==
  [][\A p \in uploads :
       (C35_Cleared /\ C35_SucceedsAfterClear(p) /\ p.debounced) => C35_Empty(p.snap)]_vars
C35_ManualStoresCleared ==
  [][\A p \in uploads :
       (C35_Cleared /\ C35_SucceedsAfterClear(p) /\ p.manual) => C35_Empty(p.snap)]_vars

\* ---------------------------------------------------------------- C36
\* C36: no step of a mutation and no completion of a commit replaces the
\* lastUpdated of the identity's aggregate by an earlier value.
C36_SameAggregate ==
  /\ memory # Null
  /\ memory' # Null
  /\ memory'.walletAddress = memory.walletAddress
  /\ nConn' = nConn
  /\ downloads' = downloads
C36_StepMonotone == C36_SameAggregate => memory'.lastUpdated >= memory.lastUpdated
C36_LastUpdatedMonotone == [][C36_StepMonotone]_vars
\* The part that holds: the steps that are no completion of a commit.
C36_MonotoneButForCommits ==
  [][(C36_SameAggregate /\ uploads \subseteq uploads')
       => memory'.lastUpdated >= memory.lastUpdated]_vars

\* ---------------------------------------------------------------- C37
\* C37: isSaving is TRUE in every state in which a put of the connected
\* identity is in flight, and FALSE in every state in which no put is in
\* flight.
C37_InFlight == {p \in uploads : p.acct = currentAccount}
C37_SavingFlag ==
  /\ C37_InFlight # {} => isSaving
  /\ uploads = {} => ~isSaving
\* The parts that hold: the flag is FALSE when no put is in flight, and TRUE
\* while the only put started so far is in flight.
C37_IdleNotSaving == uploads = {} => ~isSaving
C37_SavingWhileFirstPut == (nPut = 1 /\ uploads # {}) => isSaving

\* ---------------------------------------------------------------- C38
\* C38: the consecutive-failure counter goes up by one in the step in which
\* an automatic commit fails, goes to 0 in the step in which a commit
\* succeeds or the identity changes, and is changed by no other step (the
\* expiry of the backoff window included); and when an automatic commit that
\* was started after a window had expired fails, the step opens a new window
\* of 30 s.
C38_Failed(p) == UploadFails(p) /\ ~p.manual
C38_CounterStep ==
  /\ \A p \in uploads : C38_Failed(p) => consecutiveFailures' = consecutiveFailures + 1
  /\ \A p \in uploads : UploadSucceeds(p) => consecutiveFailures' = 0
  /\ nConn' # nConn => consecutiveFailures' = 0
  /\ consecutiveFailures' # consecutiveFailures
       => \/ \E p \in uploads : C38_Failed(p) \/ UploadSucceeds(p)
          \/ nConn' # nConn
C38_WindowExpiredBefore(p) == backoffUntil # 0 /\ backoffUntil <= p.now
C38_ReopenStep ==
  \A p \in uploads :
    (C38_Failed(p) /\ C38_WindowExpiredBefore(p))
      => /\ backoffUntil' = p.now + BACKOFF_DURATION_MS
         /\ backoffUntil' > now
         /\ consecutiveFailures' > MAX_CONSECUTIVE_FAILURES
C39_AtRest == ch.memory.loaded /\ ch.due = {}
C39_FixedPoint == <>[](ch.memory.loaded => ch.due = {})

\* With contacts in the aggregate or in the address book it does come to rest:
\* whenever the contact list shown is not empty and nothing new happens, no
\* effect stays due.
C39_RestsWithContacts == (ch.memory.loaded /\ ch.contacts # <<>>) ~> (ch.due = {})

\* An identity with zero contacts: aggregate loaded with none, the address
\* book holding "[]", and the load effect has just called updateContacts with
\* a new empty array and is due again.
C39_EmptyResynced ==
  /\ ch.memory.loaded
  /\ ch.memory.contacts = <<>>
  /\ ch.book = stringify(<<>>)
  /\ ch.armed # "none"
  /\ "load" \in ch.due
  /\ ch.calls = 0

\* ------------------------------------------------------------------ C40
\* C40: once handleDeleteContact(name) and the effects it set off have run
\* (none is due), no contact of that name is in the chat's list, in the
\* address book or in the memory's contacts.
C40_Has(contacts, name) == \E i \in DOMAIN contacts : contacts[i].name = name
C40_Gone(name) ==
  /\ ~C40_Has(ch.contacts, name)
  /\ ~C40_Has(ch.book.text, name)
  /\ ~C40_Has(ch.memory.contacts, name)
C40_Deleted == ch.removed # <<>> /\ ch.due = {}
C40_Durable == C40_Deleted => C40_Gone(ch.removed[1])

\* It holds when another contact is left, and when no memory is loaded.
C40_DurableUnlessLast ==
  (/\ C40_Deleted
   /\ \/ ch.contacts # <<>> /\ ~C40_Has(ch.contacts, ch.removed[1])
      \/ ~ch.memory.loaded)
    => C40_Gone(ch.removed[1])

\* The last contact deleted with a memory loaded, and back in all three.
C40_Resurrected ==
  /\ C40_Deleted
  /\ ch.memory.loaded
  /\ ch.contacts = <<AliContact>>
  /\ ch.removed = <<Ali>>
  /\ ch.book = stringify(<<AliContact>>)
  /\ ch.memory.contacts = <<AliContact>>

====
